---- MODULE Spec2Model ----
(***************************************************************************)
(* Model of gpt_oss_agent: the chat() facade and the _extract_response()   *)
(* traversal of a RunResult (core.agent), the tool registry                *)
(* (tools.registry) with the settings it reads (config), the web search    *)
(* tools with their client (tools.web_search, clients.exa), the CLI entry  *)
(* points (cli), the debug logger (utils.debug_logger) and the streaming   *)
(* entry point (streaming.py).                                             *)
(*                                                                         *)
(* Python values are tagged records.  An attribute that hasattr() does not *)
(* find is Absent; a text is a tuple of one-character strings, so that     *)
(* str(), strip(), startswith() and `in` are computed, not assumed; the    *)
(* messages of the tools are tuples of pieces of text.                     *)
(* Each part has its own specification: Spec, SpecRegistry, SpecProcess,   *)
(* SpecCalls, SpecLogger, SpecStream.                                      *)
(***************************************************************************)
EXTENDS Integers, Sequences, FiniteSets, TLC

\* ------------------------------------------------------------------------
\* Bounds of the model
\* ------------------------------------------------------------------------
MaxItems == 2
MaxRaw == 2

\* ------------------------------------------------------------------------
\* Python values
\* ------------------------------------------------------------------------
Absent == [t |-> "absent"]
None == [t |-> "none"]
Str(s) == [t |-> "str", v |-> s]
Num(n) == [t |-> "num", v |-> n]
List(l) == [t |-> "list", v |-> l]

HasAttr(v) == v.t # "absent"
IsStr(v) == v.t = "str"
IsList(v) == v.t = "list"

\* bool(v): None, "", 0 and [] are false, every other object is true
Truthy(v) ==
  CASE v.t = "none" -> FALSE
    [] v.t = "absent" -> FALSE
    [] v.t = "str" -> Len(v.v) > 0
    [] v.t = "num" -> v.v # 0
    [] v.t = "list" -> Len(v.v) > 0
    [] OTHER -> TRUE

\* hasattr(v, '__len__'): what len(v) accepts
Sized(v) == v.t \in {"str", "list"}

\* ------------------------------------------------------------------------
\* Texts
\* ------------------------------------------------------------------------
Whitespace == {" ", "\n", "\t"}

RECURSIVE LStrip(_)
LStrip(s) ==
  IF s # <<>> /\ Head(s) \in Whitespace THEN LStrip(Tail(s)) ELSE s

RECURSIVE RStrip(_)
RStrip(s) ==
  IF s # <<>> /\ s[Len(s)] \in Whitespace
  THEN RStrip(SubSeq(s, 1, Len(s) - 1))
  ELSE s

\* str.strip()
Strip(s) == RStrip(LStrip(s))

\* str.startswith(p)
StartsWith(s, p) == Len(s) >= Len(p) /\ SubSeq(s, 1, Len(p)) = p

\* sub in s
Contains(s, sub) ==
  \E i \in 0..(Len(s) - Len(sub)) : SubSeq(s, i + 1, i + Len(sub)) = sub

Digit(d) == CASE d = 0 -> "0" [] d = 1 -> "1" [] d = 2 -> "2" [] d = 3 -> "3"
              [] d = 4 -> "4" [] d = 5 -> "5" [] d = 6 -> "6" [] d = 7 -> "7"
              [] d = 8 -> "8" [] d = 9 -> "9"

RECURSIVE Digits(_)
Digits(n) == IF n < 10 THEN <<Digit(n)>> ELSE Digits(n \div 10) \o <<Digit(n % 10)>>

RECURSIVE ReprList(_)
\* repr of the elements of a list of texts and None, comma separated
ReprElem(e) == IF e.t = "str" THEN <<"'">> \o e.v \o <<"'">>
               ELSE IF e.t = "num" THEN Digits(e.v)
               ELSE <<"N", "o", "n", "e">>
ReprList(l) ==
  IF l = <<>> THEN <<>>
  ELSE IF Len(l) = 1 THEN ReprElem(l[1])
  ELSE ReprElem(l[1]) \o <<",", " ">> \o ReprList(Tail(l))

\* str(v)
ToStr(v) ==
  CASE v.t = "str" -> v.v
    [] v.t = "num" -> Digits(v.v)
    [] v.t = "list" -> <<"[">> \o ReprList(v.v) \o <<"]">>
    [] OTHER -> <<"N", "o", "n", "e">>

\* ------------------------------------------------------------------------
\* Objects and outcomes
\* ------------------------------------------------------------------------
\* getattr(v, name, <absent>): only objects carry attributes
Attr(v, name) == IF v.t = "obj" /\ name \in DOMAIN v THEN v[name] ELSE Absent

NoYield == [k |-> "none"]
Ret(val) == [k |-> "return", v |-> val]
Raise(e, m) == [k |-> "raise", exc |-> e, msg |-> m]

\* TypeError raised by len(None)
NoLen == Raise("TypeError", <<"object of type 'NoneType' has no len()">>)
\* TypeError raised by 'message' in None
NotIterable == Raise("TypeError", <<"argument of type 'NoneType' is not iterable">>)

\* ------------------------------------------------------------------------
\* Literals of _extract_response
\* ------------------------------------------------------------------------
\* mutant: response is probed before output and outputs
AltAttrs_ResponseFirst == <<"response", "output", "outputs", "content">>

AltAttrs == <<"output", "outputs", "response", "content">>
MessageOutputItem == <<"m","e","s","s","a","g","e","_","o","u","t","p","u","t","_","i","t","e","m">>
Message == <<"m","e","s","s","a","g","e">>
ReasoningItem == <<"r","e","a","s","o","n","i","n","g","_","i","t","e","m">>
INeedTo == <<"I"," ","n","e","e","d"," ","t","o">>
LetMe == <<"L","e","t"," ","m","e">>
Brace == <<"{">>
MinReasoningLen == 50

\* ------------------------------------------------------------------------
\* _extract_response, tier by tier
\* ------------------------------------------------------------------------
\* the debug line on raw_responses that runs before every tier
RawPeek(r) ==
  LET raw == Attr(r, "raw_responses") IN
  IF HasAttr(raw) /\ Truthy(raw) /\ ~Sized(raw) THEN NoLen ELSE NoYield

FinalOutputTier(r) ==
  LET fo == Attr(r, "final_output") IN
  IF HasAttr(fo) /\ Truthy(fo) THEN Ret(Str(ToStr(fo))) ELSE NoYield

AltAttrYield(output) ==
  IF HasAttr(output) /\ Truthy(output)
  THEN LET last == IF IsList(output) THEN output.v[Len(output.v)] ELSE output IN
       IF Truthy(last) THEN Ret(Str(ToStr(last))) ELSE NoYield
  ELSE NoYield

RECURSIVE AltTier(_, _)
AltTier(r, i) ==
  IF i > Len(AltAttrs) THEN NoYield
  ELSE LET o == AltAttrYield(Attr(r, AltAttrs[i])) IN
       IF o.k # "none" THEN o ELSE AltTier(r, i + 1)

RECURSIVE FirstText(_)
RECURSIVE FirstText_Stripped(_)
\* mutant: the text is stripped before it is returned
FirstText_Stripped(entries) ==
  IF entries = <<>> THEN NoYield
  ELSE LET text == Attr(Head(entries), "text") IN
       IF HasAttr(text) /\ Truthy(text) THEN Ret(Str(Strip(text.v)))
       ELSE FirstText_Stripped(Tail(entries))

\* for content in item.raw_item.content: first truthy content.text
FirstText(entries) ==
  IF entries = <<>> THEN NoYield
  ELSE LET text == Attr(Head(entries), "text") IN
       IF HasAttr(text) /\ Truthy(text) THEN Ret(text) ELSE FirstText(Tail(entries))

MessageOutputBranch(item) ==
  LET raw == Attr(item, "raw_item")
      content == Attr(raw, "content") IN
  IF HasAttr(raw) /\ HasAttr(content)
  THEN IF ~Sized(content) THEN NoLen
       ELSE IF IsList(content) THEN FirstText(content.v)
       ELSE NoYield
  ELSE NoYield

MessageBranch(item) ==
  LET content == Attr(item, "content") IN
  IF HasAttr(content) /\ Truthy(content) THEN Ret(Str(ToStr(content))) ELSE NoYield

\* mutant: a text of exactly 50 characters is accepted
LooksLikeResponse_AtLeast(text) ==
  /\ ~StartsWith(text, INeedTo)
  /\ ~StartsWith(text, LetMe)
  /\ Len(text) >= MinReasoningLen
  /\ ~StartsWith(text, Brace)

\* the acceptance test on a stripped reasoning text
LooksLikeResponse(text) ==
  /\ ~StartsWith(text, INeedTo)
  /\ ~StartsWith(text, LetMe)
  /\ Len(text) > MinReasoningLen
  /\ ~StartsWith(text, Brace)

RECURSIVE FirstReasoning(_)
FirstReasoning(entries) ==
  IF entries = <<>> THEN NoYield
  ELSE LET text == Attr(Head(entries), "text") IN
       IF /\ HasAttr(text) /\ Truthy(text) /\ IsStr(text)
          /\ Strip(text.v) # <<>>
          /\ LooksLikeResponse(Strip(text.v))
       THEN Ret(Str(Strip(text.v)))
       ELSE FirstReasoning(Tail(entries))

ReasoningBranch(item) ==
  LET raw == Attr(item, "raw_item")
      content == Attr(raw, "content") IN
  IF HasAttr(raw) /\ HasAttr(content)
  THEN IF IsList(content) THEN FirstReasoning(content.v)
       ELSE IF IsStr(content) /\ Strip(content.v) # <<>>
                 /\ LooksLikeResponse(Strip(content.v))
            THEN Ret(Str(Strip(content.v)))
       ELSE NoYield
  ELSE NoYield

FallbackContent(item) ==
  LET content == Attr(item, "content") IN
  IF HasAttr(content) /\ Truthy(content) /\ IsStr(content) /\ Strip(content.v) # <<>>
  THEN Ret(content)
  ELSE NoYield

\* the if / elif / elif chain on item.type
TypeBranch(item) ==
  LET ty == Attr(item, "type") IN
  IF ~HasAttr(ty) THEN NoYield
  ELSE IF ty = Str(MessageOutputItem) THEN MessageOutputBranch(item)
  ELSE IF ~IsStr(ty) THEN NotIterable
  ELSE IF Contains(ty.v, Message) THEN MessageBranch(item)
  ELSE IF ty = Str(ReasoningItem) THEN ReasoningBranch(item)
  ELSE NoYield

\* one iteration of the loop over reversed(result.new_items)
ItemOutcome(item) ==
  LET b == TypeBranch(item) IN
  IF b.k # "none" THEN b ELSE FallbackContent(item)

RECURSIVE ScanItems(_, _)
\* reversed(): index i runs from len(new_items) down to 1
ScanItems(items, i) ==
  IF i = 0 THEN NoYield
  ELSE LET o == ItemOutcome(items[i]) IN
       IF o.k # "none" THEN o ELSE ScanItems(items, i - 1)

NewItemsTier(r) ==
  LET ni == Attr(r, "new_items") IN
  IF HasAttr(ni) /\ Truthy(ni)
  THEN IF ~IsList(ni) THEN NoLen ELSE ScanItems(ni.v, Len(ni.v))
  ELSE NoYield

ChoiceContent(response) ==
  LET choices == Attr(response, "choices") IN
  IF HasAttr(choices) /\ Truthy(choices) /\ IsList(choices)
  THEN LET message == Attr(choices.v[1], "message")
           content == Attr(message, "content") IN
       IF /\ HasAttr(message) /\ Truthy(message)
          /\ HasAttr(content) /\ Truthy(content) /\ IsStr(content)
          /\ Strip(content.v) # <<>>
       THEN Ret(Str(Strip(content.v)))
       ELSE NoYield
  ELSE NoYield

DirectContent(response) ==
  LET content == Attr(response, "content") IN
  IF HasAttr(content) /\ Truthy(content) /\ IsStr(content) /\ Strip(content.v) # <<>>
  THEN Ret(content)
  ELSE NoYield

\* mutant: the direct content field is checked before choices
RawOutcome_DirectFirst(response) ==
  LET d == DirectContent(response) IN
  IF d.k # "none" THEN d ELSE ChoiceContent(response)

RawOutcome(response) ==
  LET c == ChoiceContent(response) IN
  IF c.k # "none" THEN c ELSE DirectContent(response)

RECURSIVE ScanRaw(_, _)
\* enumerate(): index i runs from 1 up to len(raw_responses)
ScanRaw(raws, i) ==
  IF i > Len(raws) THEN NoYield
  ELSE LET o == RawOutcome(raws[i]) IN
       IF o.k # "none" THEN o ELSE ScanRaw(raws, i + 1)

RawResponsesTier(r) ==
  LET raw == Attr(r, "raw_responses") IN
  IF HasAttr(raw) /\ Truthy(raw) /\ IsList(raw) THEN ScanRaw(raw.v, 1) ELSE NoYield

\* mutant: the alternative attributes are probed before final_output
Tiers_AltFirst(r) ==
  <<RawPeek(r), AltTier(r, 1), FinalOutputTier(r), NewItemsTier(r), RawResponsesTier(r)>>

\* the tiers in the order the function runs them; "" when none returns
Tiers(r) ==
  <<RawPeek(r), FinalOutputTier(r), AltTier(r, 1), NewItemsTier(r), RawResponsesTier(r)>>

RECURSIVE FirstOutcome(_, _)
FirstOutcome(ts, i) ==
  IF i > Len(ts) THEN Ret(Str(<<>>))
  ELSE IF ts[i].k # "none" THEN ts[i] ELSE FirstOutcome(ts, i + 1)

_extract_response(r) == FirstOutcome(Tiers(r), 1)

\* ------------------------------------------------------------------------
\* chat(): exceptions and the empty-response handling
\* ------------------------------------------------------------------------
Exc(ty, m, d) == [type |-> ty, msg |-> m, details |-> d]

\* isinstance(e, (AgentError, EmptyResponseError)), exceptions.py class tree
AgentErrorClasses == {"AgentError", "EmptyResponseError"}

PreviewItems == 3

TypeOfResult == <<"<class 'agents.result.RunResult'>">>

RECURSIVE ItemsDetails(_, _)
\* new_items_details: index and type of the first items
ItemsDetails(items, i) ==
  IF i > Len(items) \/ i > PreviewItems THEN <<>>
  ELSE LET ty == Attr(items[i], "type") IN
       <<[index |-> i - 1, type |-> IF HasAttr(ty) THEN ty ELSE Str(<<"unknown">>)]>>
       \o ItemsDetails(items, i + 1)

\* the debug_info dictionary, defined when len(result.new_items) is
DebugInfo(r) ==
  LET ni == Attr(r, "new_items") IN
  [result_type |-> TypeOfResult,
   has_final_output |-> HasAttr(Attr(r, "final_output")),
   final_output_value |-> IF HasAttr(Attr(r, "final_output")) THEN Attr(r, "final_output") ELSE None,
   has_new_items |-> HasAttr(ni),
   new_items_count |-> IF HasAttr(ni) THEN Len(ni.v) ELSE 0,
   new_items_details |-> IF HasAttr(ni) /\ Truthy(ni) THEN ItemsDetails(ni.v, 1) ELSE <<>>]

EmptyResponseError(details) ==
  Exc("EmptyResponseError", <<"Agent completed but returned no output">>, details)

\* the `if not response:` block: the exception it ends with
EmptyHandling(r) ==
  LET ni == Attr(r, "new_items") IN
  IF HasAttr(ni) /\ ~Sized(ni)
  THEN Exc(NoLen.exc, NoLen.msg, <<>>)
  ELSE EmptyResponseError(<<"Result had ">> \o Digits(DebugInfo(r).new_items_count)
                          \o <<" new_items. Debug info logged.">>)

\* mutant: the exception is re-raised as it is
Reraise_Bare(e) == e

\* the `except Exception as e:` clause: the exception that leaves chat
Reraise(e) ==
  IF e.type \in AgentErrorClasses THEN e
  ELSE Exc("AgentError", <<"Chat failed: ">> \o e.msg, <<>>)

\* ------------------------------------------------------------------------
\* RunResult shapes returned by Runner.run_sync
\* ------------------------------------------------------------------------
Rep(c, n) == [i \in 1..n |-> c]
Paris == <<"P","a","r","i","s">>

Text(text) == [t |-> "obj", text |-> text]
RawItem(content) == [t |-> "obj", content |-> content]
Item(type, raw_item, content) ==
  [t |-> "obj", type |-> type, raw_item |-> raw_item, content |-> content]
Msg(content) == [t |-> "obj", content |-> content]
Choice(message) == [t |-> "obj", message |-> message]
Response(choices, content) == [t |-> "obj", choices |-> choices, content |-> content]
RunResult(fo, out, outs, resp, cont, ni, raw) ==
  [t |-> "obj", final_output |-> fo, output |-> out, outputs |-> outs,
   response |-> resp, content |-> cont, new_items |-> ni, raw_responses |-> raw]

ToolCallItem == <<"t","o","o","l","_","c","a","l","l","_","i","t","e","m">>
AssistantMessage == <<"a","s","s","i","s","t","a","n","t","_","m","e","s","s","a","g","e">>

ItemShapes ==
  { Item(Str(MessageOutputItem), RawItem(List(<<Text(Str(Paris))>>)), Absent),
    Item(Str(MessageOutputItem),
         RawItem(List(<<Text(None), Text(Str(<<>>)), Text(Absent),
                        Text(Str(<<" ","A"," ">>)), Text(Str(<<"B">>))>>)), Absent),
    Item(Str(MessageOutputItem), RawItem(None), Absent),
    Item(Str(MessageOutputItem), Absent, Str(<<"D">>)),
    Item(Str(MessageOutputItem), RawItem(List(<<>>)), Absent),
    Item(Str(AssistantMessage), Absent, Str(<<"M"," ">>)),
    Item(Str(AssistantMessage), Absent, None),
    Item(Str(ReasoningItem), RawItem(Str(Rep("r", 51))), Absent),
    Item(Str(ReasoningItem), RawItem(List(<<Text(Str(LetMe \o Rep("r", 51)))>>)), Absent),
    Item(Str(ReasoningItem), RawItem(List(<<Text(Str(Rep("r", 50)))>>)), Str(<<" ","F">>)),
    Item(Str(ToolCallItem), Absent, Str(<<" ","\n">>)),
    Item(Str(ToolCallItem), Absent, Str(<<"T">>)),
    Item(None, Absent, Absent),
    Item(Absent, Absent, Str(<<"U">>)) }

\* texts that probe each clause of the reasoning acceptance test
ReasoningTexts ==
  { Rep("x", 51), Rep("x", 50), Rep("x", 52), <<"o","k">>,
    LetMe \o Rep("x", 51), INeedTo \o Rep("x", 51), Brace \o Rep("x", 51),
    LetMe, <<" ">> \o LetMe \o Rep("x", 51), <<"\n">> \o Brace \o Rep("x", 51),
    Rep("x", 51) \o <<" ">>, <<" ">> \o Rep("x", 50), <<"\t">> \o Rep("x", 51),
    <<" ", " ">>, <<>> }

RawShapes ==
  { Response(List(<<Choice(Msg(Str(<<" ","C","1"," ">>)))>>), Str(<<"D","1">>)),
    Response(List(<<Choice(Msg(Str(<<" "," ">>)))>>), Str(<<" ","D","2"," ">>)),
    Response(Absent, Str(<<"D","3">>)),
    Response(List(<<>>), None),
    Response(List(<<Choice(None)>>), Absent),
    Response(List(<<Choice(Msg(None)), Choice(Msg(Str(<<"C","6">>)))>>), Absent),
    Response(None, Str(<<" "," ">>)),
    Response(List(<<Choice(Msg(Str(<<"C","8">>)))>>), Absent) }

SeqsUpTo(S, n) == UNION {[1..m -> S] : m \in 1..n}

OneRaw == List(<<Response(Absent, Str(<<"R">>))>>)
OneMessage == List(<<Item(Str(MessageOutputItem), RawItem(List(<<Text(Str(Paris))>>)), Absent)>>)
OneNullType == List(<<Item(None, Absent, Absent)>>)

\* every top-level field varies, the two sequences only between a few shapes
TopResults ==
  { RunResult(fo, out, outs, resp, cont, ni, raw) :
      fo \in {Absent, None, Str(<<>>), Str(<<"h","i">>), Num(42),
              List(<<Str(<<"a">>), None>>)},
      out \in {Absent, None, Str(<<"o">>)},
      outs \in {Absent, List(<<>>), List(<<Str(<<"a">>), Str(<<"b">>)>>),
                List(<<Str(<<"a">>), Str(<<>>)>>)},
      resp \in {Absent, Str(<<>>), Num(7)},
      cont \in {Absent, Str(<<"c">>)},
      ni \in {Absent, OneMessage, OneNullType},
      raw \in {Absent, OneRaw} }

\* no top-level text: new_items varies over every sequence of item shapes
ItemResults ==
  { RunResult(fo, Absent, Absent, Absent, Absent, ni, raw) :
      fo \in {Absent, Str(<<>>)},
      ni \in {None, List(<<>>)} \cup {List(s) : s \in SeqsUpTo(ItemShapes, MaxItems)},
      raw \in {Absent, OneRaw} }

\* a single reasoning item, its text given as a string or as one entry
ReasoningResults ==
  { RunResult(fo, Absent, Absent, Absent, Absent,
              List(<<Item(Str(ReasoningItem), RawItem(c), Absent)>>), Absent) :
      fo \in {Absent, None, Str(<<>>)},
      c \in {Str(t) : t \in ReasoningTexts} \cup {List(<<Text(Str(t))>>) : t \in ReasoningTexts} }

\* nothing before the last tier: raw_responses varies over every sequence
RawResults ==
  { RunResult(Absent, Absent, Absent, Absent, Absent, ni, raw) :
      ni \in {Absent, List(<<>>), List(<<Item(Str(ToolCallItem), Absent, Absent)>>), OneMessage},
      raw \in {None, List(<<>>)} \cup {List(s) : s \in SeqsUpTo(RawShapes, MaxRaw)} }

RunResults == TopResults \cup ItemResults \cup ReasoningResults \cup RawResults

\* exceptions Runner.run_sync raises
RunnerErrors ==
  { Exc("ConnectionError", <<"connection refused">>, <<>>),
    Exc("MaxTurnsExceeded", <<"Max turns (10) exceeded">>, <<>>),
    Exc("AgentError", <<"nested agent failed">>, <<"inner">>) }

\* ------------------------------------------------------------------------
\* Configuration (gpt_oss_agent.config)
\* ------------------------------------------------------------------------
\* A credential is None or a text of one token.
Placeholder == <<"your_exa_api_key_here">>
EmptyKey == Str(<<>>)
PlaceholderKey == Str(Placeholder)
ValidKey == Str(<<"exa-live-key">>)
ApiKeys == {None, EmptyKey, PlaceholderKey, ValidKey}

\* a supplied value of exa.enabled; Absent when the field is not supplied
Bool(b) == [t |-> "bool", v |-> b]
EnabledInputs == {Absent, Bool(TRUE), Bool(FALSE)}

\* @validator('enabled'): disable if no API key provided
validate_enabled(v, api_key) == IF v /\ ~Truthy(api_key) THEN FALSE ELSE v

DefaultMaxResults == 5

\* ExaConfig(api_key=..., enabled=..., max_results=...): the validator runs
\* on a supplied value only, the default of enabled is True
ExaConfig(api_key, enabled, max_results) ==
  [api_key |-> api_key,
   enabled |-> IF enabled = Absent THEN TRUE
               ELSE validate_enabled(enabled.v, api_key),
   max_results |-> max_results]

\* Settings(exa=..., EXA_API_KEY=...): the legacy credential replaces the
\* nested one after validation; vllm.model keeps its default
DefaultModel == Str(<<"gpt-oss-120b">>)
Settings(exa, exa_api_key) ==
  [exa |-> IF Truthy(exa_api_key) THEN [exa EXCEPT !.api_key = exa_api_key]
           ELSE exa,
   vllm |-> [model |-> DefaultModel]]

\* ------------------------------------------------------------------------
\* Search client and web-search tools: availability
\* ------------------------------------------------------------------------
\* ExaSearchClient.__init__: the credential and the flag are read once
ExaSearchClient(settings) ==
  [api_key |-> settings.exa.api_key,
   enabled |-> settings.exa.enabled /\ Truthy(settings.exa.api_key),
   max_results |-> settings.exa.max_results]

\* ExaSearchClient.is_available
is_available(client) ==
  client.enabled /\ Truthy(client.api_key) /\ client.api_key # PlaceholderKey

\* the two function tools of web_search.py
web_search ==
  [name |-> "web_search",
   description |-> "Search the web for information using Exa search engine."]
get_page_content ==
  [name |-> "get_page_content",
   description |-> "Get the content of a specific webpage."]
WebNames == {"web_search", "get_page_content"}

\* get_web_search_tool(): the singleton after the call; its client is
\* built from the settings of the first call and kept
get_web_search_tool(singleton, settings) ==
  IF singleton = None THEN ExaSearchClient(settings) ELSE singleton

\* web_search.get_available_tools(), imported by the registry as
\* get_web_search_tools: asks the singleton's client
get_web_search_tools(singleton) ==
  IF is_available(singleton) THEN <<web_search, get_page_content>> ELSE <<>>

\* check_tools_status(): asks a fresh client built from the current settings
check_tools_status(settings) ==
  [n \in WebNames |-> is_available(ExaSearchClient(settings))]

\* ------------------------------------------------------------------------
\* Python dictionaries: a sequence of entries in insertion order
\* ------------------------------------------------------------------------
Keys(d) == {d[i].k : i \in 1..Len(d)}
KeySeq(d) == [i \in 1..Len(d) |-> d[i].k]
Lookup(d, key) == (CHOOSE i \in 1..Len(d) : d[i].k = key)

\* d.get(key, default)
DictGet(d, key, default) ==
  IF key \in Keys(d) THEN d[Lookup(d, key)].v ELSE default

\* d[key] = value: a key already present keeps its place
DictSet_Append(d, key, value) == Append(d, [k |-> key, v |-> value])
DictSet(d, key, value) ==
  IF key \in Keys(d)
  THEN [i \in 1..Len(d) |->
          IF d[i].k = key THEN [k |-> key, v |-> value] ELSE d[i]]
  ELSE Append(d, [k |-> key, v |-> value])

\* del d[key], for a key that is present
DictDel(d, key) == SelectSeq(d, LAMBDA e : e.k # key)

\* getattr(obj, name, default)
GetAttr(obj, name, default) ==
  IF name \in DOMAIN obj THEN obj[name] ELSE default

\* ------------------------------------------------------------------------
\* ToolRegistry (gpt_oss_agent.tools.registry)
\* ------------------------------------------------------------------------
\* for tool in web_tools: self._tools[tool_name] = tool
RECURSIVE AddTools(_, _)
AddTools(tools, web_tools) ==
  IF web_tools = <<>> THEN tools
  ELSE AddTools(DictSet(tools, Head(web_tools).name, Head(web_tools)),
                Tail(web_tools))

\* the status entry _update_tool_status builds for one tool
DiscoveredStatus(tool_name, tool, web_status) ==
  IF tool_name \in WebNames
  THEN [available |-> web_status[tool_name],
        name |-> tool_name,
        description |-> GetAttr(tool, "description", "No description available"),
        type |-> "function_tool",
        category |-> "web_search",
        requires |-> "exa_api_key"]
  ELSE [available |-> FALSE,
        name |-> tool_name,
        description |-> GetAttr(tool, "description", "No description available"),
        type |-> "function_tool"]

\* _update_tool_status: one entry for every catalogued tool, the first i
\* tools done
RECURSIVE UpdateFrom(_, _, _, _)
UpdateFrom(i, tools, status, web_status) ==
  IF i > Len(tools) THEN status
  ELSE UpdateFrom(i + 1, tools,
                  DictSet(status, tools[i].k,
                          DiscoveredStatus(tools[i].k, tools[i].v, web_status)),
                  web_status)

_update_tool_status(tools, status, settings) ==
  UpdateFrom(1, tools, status, check_tools_status(settings))

\* _discover_tools: the catalogue and the status after it ran
_discover_tools(tools, status, singleton, settings) ==
  LET found == AddTools(tools, get_web_search_tools(singleton))
  IN  [tools |-> found,
       status |-> _update_tool_status(found, status, settings)]

\* the status entry register_tool writes
CustomStatus_OwnName(tool_name, tool) ==
  [available |-> TRUE,
   name |-> GetAttr(tool, "name", tool_name),
   description |-> GetAttr(tool, "description", "Custom tool"),
   type |-> "custom",
   category |-> "custom"]
CustomStatus(tool_name, tool) ==
  [available |-> TRUE,
   name |-> tool_name,
   description |-> GetAttr(tool, "description", "Custom tool"),
   type |-> "custom",
   category |-> "custom"]

\* register_tool: name or getattr(tool, 'name', ...); "" is the omitted name
NoName == ""
RegisteredName(tool, name) ==
  IF name # NoName THEN name ELSE GetAttr(tool, "name", "unknown")

\* self._tool_status.get(name, {}).get('available', False)
is_tool_available(status, name) ==
  IF name \in Keys(status)
  THEN GetAttr(DictGet(status, name, <<>>), "available", FALSE)
  ELSE FALSE

\* get_available_tools: the catalogued tools whose status says available
get_available_tools_Unfiltered(tools, status) ==
  [i \in 1..Len(tools) |-> tools[i].v]
get_available_tools(tools, status) ==
  LET kept == SelectSeq(tools, LAMBDA e : is_tool_available(status, e.k))
  IN  [i \in 1..Len(kept) |-> kept[i].v]

\* get_tool: self._tools.get(name)
get_tool(tools, name) == DictGet(tools, name, None)

\* get_tool_status(): self._tool_status.copy()
get_tool_status(status) == status

\* custom tools a caller registers: one that says nothing about its own
\* availability and one that reports itself unavailable
Calculator == [name |-> "calculator", description |-> "Adds numbers"]
Offline ==
  [name |-> "offline", description |-> "Needs a device",
   is_available |-> FALSE]
Registrations ==
  {<<Calculator, NoName>>, <<Calculator, "web_search">>, <<Offline, NoName>>}
UnregisterNames == {"web_search", "calculator", "offline", "missing"}

\* ------------------------------------------------------------------------
\* Search client and web-search tools: one call
\* ------------------------------------------------------------------------
\* A message is a tuple of pieces: the literal parts of the format string
\* and the interpolated values.  The prefix "Error" is a piece of its own,
\* so that startswith("Error") is computed on the pieces.
ErrorPrefix == <<"Error">>

\* an exception that propagates, and a request handed to the provider
Throw(e) == [k |-> "raise", e |-> e]
Issue(payload) == [k |-> "request", payload |-> payload]

\* WebSearchError(message, details): ToolError("web_search", ...) prefixes
\* the tool name to the message
WebSearchError(message, details) ==
  Exc("WebSearchError", <<"Tool '", "web_search", "' error: ">> \o message,
      details)

\* the literals of search() and of get_content()
ClientTexts(op) ==
  IF op = "search"
  THEN [status |-> <<"Search request failed with status ">>,
        timeout |-> <<"Search request timed out">>,
        failed |-> <<"Search request failed: ">>,
        unexpected |-> <<"Unexpected search error: ">>]
  ELSE [status |-> <<"Content retrieval failed with status ">>,
        timeout |-> <<"Content retrieval timed out">>,
        failed |-> <<"Content retrieval failed: ">>,
        unexpected |-> <<"Unexpected content retrieval error: ">>]

Unavailable ==
  WebSearchError(<<"Exa search not available">>,
                 Str(<<"API key not configured or client disabled">>))

OutOfRangeResults == 5
MinResults == 1
MaxResults == 10

\* num_results = num_results or self.settings.exa.max_results, then the
\* range check
ClientNumResults(num_results, max_results) ==
  LET n == IF Truthy(num_results) THEN num_results.v ELSE max_results
  IN  IF n < MinResults \/ n > MaxResults THEN OutOfRangeResults ELSE n

\* ExaSearchClient.search up to requests.post
SearchRequest(client, query, num_results) ==
  IF ~is_available(client) THEN Throw(Unavailable)
  ELSE IF query = <<>> \/ Strip(query) = <<>>
  THEN Throw(WebSearchError(<<"Search query cannot be empty">>, None))
  ELSE Issue([endpoint |-> "search", query |-> query,
              numResults |-> ClientNumResults(num_results,
                                              client.max_results)])

\* ExaSearchClient.get_content up to requests.post
ContentRequest(client, url) ==
  IF ~is_available(client) THEN Throw(Unavailable)
  ELSE IF url = <<>>
  THEN Throw(WebSearchError(<<"URL cannot be empty">>, None))
  ELSE Issue([endpoint |-> "contents", ids |-> <<url>>])

\* what the provider does with a request
HttpResponse(status, text, json) ==
  [k |-> "response", status |-> status, text |-> text, json |-> json]
Timeout == [k |-> "raise", type |-> "Timeout", msg |-> <<"read timed out">>]
Transport ==
  [k |-> "raise", type |-> "ConnectionError", msg |-> <<"connection refused">>]
Unexpected ==
  [k |-> "raise", type |-> "ValueError", msg |-> <<"Expecting value">>]

OkStatus == 200

\* the body of the try block after requests.post
TryBody(op, answer) ==
  IF answer.k = "raise" THEN Throw(Exc(answer.type, answer.msg, None))
  ELSE IF answer.status = OkStatus THEN Ret(answer.json)
  ELSE Throw(WebSearchError(ClientTexts(op).status \o Digits(answer.status),
                            Str(answer.text)))

\* the except clauses of that try block: Timeout, then RequestException,
\* then Exception, which also catches the WebSearchError of the try body
ExceptClauses(op, thrown) ==
  CASE thrown.type = "Timeout" ->
         Throw(WebSearchError(ClientTexts(op).timeout, None))
    [] thrown.type = "ConnectionError" ->
         Throw(WebSearchError(ClientTexts(op).failed \o thrown.msg, None))
    [] OTHER ->
         Throw(WebSearchError(ClientTexts(op).unexpected \o thrown.msg, None))

\* search() / get_content() from requests.post on
ClientOutcome(op, answer) ==
  LET body == TryBody(op, answer)
  IN  IF body.k = "raise" THEN ExceptClauses(op, body.e) ELSE body

SnippetLimit == 300
SnippetHighlights == 2
ContentLimit == 2000
BarWidth == 50

\* " ".join(highlights[:2])
RECURSIVE Join(_, _)
Join(texts, sep) ==
  IF texts = <<>> THEN <<>>
  ELSE IF Len(texts) = 1 THEN texts[1]
  ELSE texts[1] \o sep \o Join(Tail(texts), sep)

FirstN(s, n) == SubSeq(s, 1, IF Len(s) < n THEN Len(s) ELSE n)

\* the snippet of one search result: text, else highlights, else summary
Snippet(r) ==
  IF "text" \in DOMAIN r /\ r.text # <<>>
  THEN IF Len(r.text) > SnippetLimit
       THEN FirstN(r.text, SnippetLimit) \o <<"...">>
       ELSE r.text
  ELSE IF "highlights" \in DOMAIN r /\ r.highlights # <<>>
  THEN Join(FirstN(r.highlights, SnippetHighlights), <<" ">>)
  ELSE IF "summary" \in DOMAIN r /\ r.summary # <<>>
  THEN r.summary
  ELSE <<"No description available">>

\* the three lines of result i
ResultLines(i, r) ==
  << <<"\n">> \o Digits(i) \o <<". ">> \o GetAttr(r, "title", <<"No title">>),
     <<"   URL: ">> \o GetAttr(r, "url", <<"No URL">>),
     <<"   ">> \o Snippet(r) >>

RECURSIVE AllResultLines(_, _)
AllResultLines(i, rs) ==
  IF i > Len(rs) THEN <<>>
  ELSE ResultLines(i, rs[i]) \o AllResultLines(i + 1, rs)

\* format_search_results; a payload that is not a dictionary (JSON null)
\* fails the membership test
format_search_results(results, query) ==
  IF results = None
  THEN Throw(Exc("TypeError",
                 <<"argument of type 'NoneType' is not iterable">>, None))
  ELSE IF "error" \in DOMAIN results
  THEN Ret(Str(<<"Search error: ">> \o results.error))
  ELSE LET head == << <<"Web search results for: '">> \o query \o <<"'">>,
                      Rep("=", BarWidth) >>
           rest == IF "results" \in DOMAIN results /\ results.results # <<>>
                   THEN AllResultLines(1, results.results)
                   ELSE << <<"No results found for this query.">> >>
       IN  Ret(Str(Join(head \o rest, <<"\n">>)))

\* format_page_content
format_page_content(content_data, url) ==
  IF content_data = None
  THEN Throw(Exc("TypeError",
                 <<"argument of type 'NoneType' is not iterable">>, None))
  ELSE IF "error" \in DOMAIN content_data
  THEN Ret(Str(ErrorPrefix \o <<": ">> \o content_data.error))
  ELSE IF "results" \notin DOMAIN content_data \/ content_data.results = <<>>
  THEN Ret(Str(ErrorPrefix \o <<": No content found for URL: ">> \o url))
  ELSE LET r == content_data.results[1]
           title == GetAttr(r, "title", <<"No title">>)
           text == GetAttr(r, "text", <<>>)
           summary == GetAttr(r, "summary", <<>>)
       IN  Ret(Str(
             <<"Title: ">> \o title \o <<"\nURL: ">> \o url \o <<"\n\n">>
             \o (IF summary # <<>>
                 THEN <<"Summary: ">> \o summary \o <<"\n\n">> ELSE <<>>)
             \o (IF text = <<>> THEN <<>>
                 ELSE IF Len(text) > ContentLimit
                 THEN <<"Content (truncated): ">> \o FirstN(text, ContentLimit)
                      \o <<"...\n">>
                 ELSE <<"Content: ">> \o text \o <<"\n">>)))

\* the literals of WebSearchTool.execute and of PageContentTool.execute
ToolTexts(fn) ==
  IF fn = "web_search"
  THEN [unavailable |->
          <<": Web search not available - Exa API key not configured">>,
        empty |-> <<": Search query cannot be empty">>,
        error |-> <<"Web search error: ">>,
        unexpected |-> <<": Unexpected web search error: ">>]
  ELSE [unavailable |->
          <<": Page content retrieval not available - Exa API key not configured">>,
        empty |-> <<": URL cannot be empty">>,
        error |-> <<"Page content error: ">>,
        unexpected |-> <<": Unexpected page content error: ">>]

\* the range check of WebSearchTool.execute
ToolNumResults(num_results) ==
  IF num_results < MinResults \/ num_results > MaxResults
  THEN OutOfRangeResults
  ELSE num_results

\* execute() up to the provider request: an early return or what the
\* client call inside the try block does first
ExecuteRequest(fn, client, arg, num_results) ==
  IF ~is_available(client)
  THEN Ret(Str(ErrorPrefix \o ToolTexts(fn).unavailable))
  ELSE IF arg = <<>> \/ (fn = "web_search" /\ Strip(arg) = <<>>)
  THEN Ret(Str(ErrorPrefix \o ToolTexts(fn).empty))
  ELSE IF fn = "web_search"
  THEN SearchRequest(client, arg, Num(ToolNumResults(num_results)))
  ELSE ContentRequest(client, arg)

\* the except clauses of execute(): WebSearchError, then Exception
ExecuteCatch_Reraises(fn, thrown) == Throw(thrown)
ExecuteCatch(fn, thrown) ==
  IF thrown.type = "WebSearchError"
  THEN Ret(Str(ToolTexts(fn).error \o thrown.msg
               \o (IF Truthy(thrown.details)
                   THEN <<" (">> \o thrown.details.v \o <<")">>
                   ELSE <<>>)))
  ELSE Ret(Str(ErrorPrefix \o ToolTexts(fn).unexpected \o thrown.msg))

\* the try block of execute() from the client's outcome on
ExecuteOutcome(fn, arg, clientOutcome) ==
  IF clientOutcome.k = "raise" THEN ExecuteCatch(fn, clientOutcome.e)
  ELSE LET formatted == IF fn = "web_search"
                        THEN format_search_results(clientOutcome.v, arg)
                        ELSE format_page_content(clientOutcome.v, arg)
       IN  IF formatted.k = "raise" THEN ExecuteCatch(fn, formatted.e)
           ELSE formatted

\* success=not result.startswith("Error")
Success(text) == ~StartsWith(text.v, ErrorPrefix)

\* what the debug logging after execute() meets: the logger module cannot
\* be imported, the entry is written, or the logger fails while writing
LogOutcomes == {"import_error", "logged", "logger_raises"}

\* the function tool from execute()'s result on: except ImportError passes,
\* log_tool_execution swallows what the logger raises
AfterLogging(executed, log) == executed

\* inputs of the calls
Tla == <<"t","l","a">>
Queries == {<<>>, <<" ", " ">>, Tla, <<" ">> \o Tla}
Urls == {<<>>, <<"https://lamport.org">>}
ToolCounts == {-1, 0, 1, 5, 10, 11, 15}
ClientCounts == {None} \cup {Num(n) : n \in ToolCounts}

Hit ==
  [title |-> <<"TLA+">>, url |-> <<"https://lamport.org">>,
   text |-> <<"s","p","e","c">>]
Highlighted ==
  [url |-> <<"https://lamport.org">>,
   highlights |-> << <<"one">>, <<"two">>, <<"three">> >>]
Summarised == [title |-> <<"TLA+">>, summary |-> <<"a summary">>]
Bare == [id |-> <<"1">>]
\* results around the two limits, one character a piece: a text one over
\* and one at the snippet limit, two highlights and a summary over it, a
\* page one over and one at the content limit
LongText == [title |-> <<"TLA+">>, text |-> Rep("x", SnippetLimit) \o <<"y">>]
LimitText == [title |-> <<"TLA+">>, text |-> Rep("x", SnippetLimit)]
LongHighlights ==
  [title |-> <<"TLA+">>,
   highlights |-> << Rep("h", SnippetLimit - 100), Rep("i", SnippetLimit - 100) >>]
LongSummary == [title |-> <<"TLA+">>, summary |-> Rep("s", SnippetLimit) \o <<"t">>]
LongPage == [title |-> <<"TLA+">>, text |-> Rep("x", ContentLimit) \o <<"y">>]
LimitPage == [title |-> <<"TLA+">>, text |-> Rep("x", ContentLimit)]
Payloads ==
  { None,
    [error |-> <<"quota exceeded">>],
    [results |-> <<>>],
    [requestId |-> <<"r1">>],
    [results |-> <<Hit>>],
    [results |-> <<Highlighted, Summarised>>],
    [results |-> <<Bare>>],
    [results |-> <<LongText, LimitText>>],
    [results |-> <<LongHighlights>>],
    [results |-> <<LongSummary>>],
    [results |-> <<LongPage>>],
    [results |-> <<LimitPage>>] }
Bodies == {<<>>, <<"rate limit exceeded">>}
ErrorStatuses == {429, 500}
Answers ==
  {HttpResponse(OkStatus, <<"json">>, p) : p \in Payloads}
  \cup {HttpResponse(s, b, None) : s \in ErrorStatuses, b \in Bodies}
  \cup {Timeout, Transport, Unexpected}

\* ------------------------------------------------------------------------
\* State
\* ------------------------------------------------------------------------
\* one chat() call
VARIABLES pc, result, extracted, exc, raisedAt, outcome

\* the process-wide settings, the web-search tool singleton (its client),
\* the process-wide ToolRegistry with its two dictionaries, the last
\* operation on the registry or the settings with what it returned, and
\* the names in the order they entered the catalogue
VARIABLES _settings, _web_search_tool, _registry, lastOp, arrival

\* one call of a model-facing tool or of the search client: the call, the
\* request handed to the provider, the provider's answer, the result
VARIABLES call, request, answer, toolResult

\* one call of process_streaming_response: the arguments with what the
\* stream has delivered so far, the StreamHandler's fields, the
\* RichStreamDisplay's fields, what was returned
VARIABLES stream, handler, display, returned

\* one DebugLogger session: the logger's fields, the files of the log
\* directory with the event each one holds, the number of events logged
VARIABLES debugLogger, files, logged

chatVars == <<pc, result, extracted, exc, raisedAt, outcome>>
registryVars == <<_settings, _web_search_tool, _registry, lastOp, arrival>>
callVars == <<call, request, answer, toolResult>>
streamVars == <<stream, handler, display, returned>>
loggerVars == <<debugLogger, files, logged>>

vars == <<chatVars, registryVars, callVars, streamVars, loggerVars>>

NotYet == [k |-> "notyet"]

\* the chat() call has not started
ChatIdle ==
  /\ pc = "start"
  /\ result = NotYet
  /\ extracted = NotYet
  /\ exc = NotYet
  /\ raisedAt = "nowhere"
  /\ outcome = NotYet

\* no tool singleton and no registry have been created
RegistryIdle ==
  /\ _web_search_tool = None
  /\ _registry = None
  /\ lastOp = [op |-> "none"]
  /\ arrival = <<>>

\* no tool or client call has started
CallIdle ==
  /\ call = NotYet
  /\ request = NotYet
  /\ answer = NotYet
  /\ toolResult = NotYet

\* process_streaming_response has not been called
StreamIdle ==
  /\ stream = NotYet
  /\ handler = NotYet
  /\ display = NotYet
  /\ returned = NotYet

\* no DebugLogger has been created
LoggerIdle ==
  /\ debugLogger = NotYet
  /\ files = <<>>
  /\ logged = 0

\* Settings() with nothing in the environment
DefaultSettings == Settings(ExaConfig(None, Absent, DefaultMaxResults), None)

\* ------------------------------------------------------------------------
\* State machine of one chat() call
\* ------------------------------------------------------------------------
Init ==
  /\ ChatIdle
  /\ _settings = DefaultSettings
  /\ RegistryIdle
  /\ CallIdle
  /\ StreamIdle
  /\ LoggerIdle

\* Runner.run_sync returns a result
RunSyncReturns(r) ==
  /\ pc = "start"
  /\ result' = r
  /\ pc' = "run_done"
  /\ UNCHANGED <<extracted, exc, raisedAt, outcome>>
  /\ UNCHANGED <<registryVars, callVars, streamVars, loggerVars>>

\* Runner.run_sync raises
RunSyncRaises(e) ==
  /\ pc = "start"
  /\ exc' = e
  /\ raisedAt' = "runner"
  /\ pc' = "except"
  /\ UNCHANGED <<result, extracted, outcome>>
  /\ UNCHANGED <<registryVars, callVars, streamVars, loggerVars>>

\* response = self._extract_response(result)
ExtractStep ==
  /\ pc = "run_done"
  /\ extracted' = _extract_response(result)
  /\ IF extracted'.k = "raise"
     THEN /\ exc' = Exc(extracted'.exc, extracted'.msg, <<>>)
          /\ raisedAt' = "extract"
          /\ pc' = "except"
     ELSE /\ pc' = "extracted"
          /\ UNCHANGED <<exc, raisedAt>>
  /\ UNCHANGED <<result, outcome>>
  /\ UNCHANGED <<registryVars, callVars, streamVars, loggerVars>>

\* return response
ReturnResponse ==
  /\ pc = "extracted"
  /\ Truthy(extracted.v)
  /\ outcome' = [k |-> "return", v |-> extracted.v]
  /\ pc' = "done"
  /\ UNCHANGED <<result, extracted, exc, raisedAt>>
  /\ UNCHANGED <<registryVars, callVars, streamVars, loggerVars>>

\* if not response: ... raise EmptyResponseError(...)
EmptyResponse ==
  /\ pc = "extracted"
  /\ ~Truthy(extracted.v)
  /\ exc' = EmptyHandling(result)
  /\ raisedAt' = "empty_handling"
  /\ pc' = "except"
  /\ UNCHANGED <<result, extracted, outcome>>
  /\ UNCHANGED <<registryVars, callVars, streamVars, loggerVars>>

\* except Exception as e: re-raise or wrap
ExceptHandler ==
  /\ pc = "except"
  /\ outcome' = [k |-> "raise", e |-> Reraise(exc)]
  /\ pc' = "done"
  /\ UNCHANGED <<result, extracted, exc, raisedAt>>
  /\ UNCHANGED <<registryVars, callVars, streamVars, loggerVars>>

Next ==
  \/ \E r \in RunResults : RunSyncReturns(r)
  \/ \E e \in RunnerErrors : RunSyncRaises(e)
  \/ ExtractStep
  \/ ReturnResponse
  \/ EmptyResponse
  \/ ExceptHandler

Spec == Init /\ [][Next]_vars

\* ------------------------------------------------------------------------
\* State machine of the tool registry
\* ------------------------------------------------------------------------
\* The settings a process starts with, and the ones a reload produces:
\* each credential with the enabled flag left to its default, a valid
\* credential with the flag switched off, and a valid credential given
\* only by the legacy variable EXA_API_KEY.
LoadedSettings ==
  { Settings(ExaConfig(k, Absent, DefaultMaxResults), None) : k \in ApiKeys }
  \cup { Settings(ExaConfig(ValidKey, Bool(FALSE), DefaultMaxResults), None),
         Settings(ExaConfig(None, Bool(TRUE), DefaultMaxResults), ValidKey) }

InitRegistry ==
  /\ ChatIdle
  /\ _settings \in LoadedSettings
  /\ RegistryIdle
  /\ CallIdle
  /\ StreamIdle
  /\ LoggerIdle

\* the scenario a reload belongs to: it follows a get_tool_status() call,
\* or the construction of a registry under an empty or placeholder
\* credential, possibly with other reloads in between
Following ==
  CASE lastOp.op = "get_tool_status" -> "get_tool_status"
    [] lastOp.op = "build" /\ lastOp.credential \in {EmptyKey, PlaceholderKey}
         -> "build"
    [] lastOp.op = "configure" -> lastOp.after
    [] OTHER -> "other"

\* reload_settings() / configure_from_dict(): the global is replaced
Configure(s) ==
  /\ s # _settings
  /\ _settings' = s
  /\ lastOp' = [op |-> "configure", after |-> Following]
  /\ UNCHANGED <<_web_search_tool, _registry, arrival>>

\* names in the order they enter a catalogue that already holds `before`
Entered(before, tools) ==
  before \o SelectSeq(KeySeq(tools), LAMBDA n : n \notin Keys(
                        [i \in 1..Len(before) |-> [k |-> before[i]]]))

\* get_tool_registry(): ToolRegistry() with two empty dictionaries, then
\* _discover_tools()
Build ==
  /\ _registry = None
  /\ _web_search_tool' = get_web_search_tool(_web_search_tool, _settings)
  /\ LET d == _discover_tools(<<>>, <<>>, _web_search_tool', _settings)
     IN  /\ _registry' = [tools |-> d.tools, status |-> d.status]
         /\ arrival' = Entered(<<>>, d.tools)
  /\ lastOp' = [op |-> "build", credential |-> _settings.exa.api_key]
  /\ UNCHANGED _settings

\* get_web_search_tool() called before any registry exists, as the
\* function tools do: the singleton is created from the settings of the day
GetWebSearchTool ==
  /\ _web_search_tool = None
  /\ _web_search_tool' = get_web_search_tool(_web_search_tool, _settings)
  /\ lastOp' = [op |-> "get_web_search_tool"]
  /\ UNCHANGED <<_settings, _registry, arrival>>

\* _discover_tools() on the existing registry
Discover ==
  /\ _registry # None
  /\ _web_search_tool' = get_web_search_tool(_web_search_tool, _settings)
  /\ LET d == _discover_tools(_registry.tools, _registry.status,
                              _web_search_tool', _settings)
     IN  /\ _registry' = [tools |-> d.tools, status |-> d.status]
         /\ arrival' = Entered(arrival, d.tools)
  /\ lastOp' = [op |-> "discover",
                again |-> lastOp.op \in {"build", "discover"}]
  /\ UNCHANGED _settings

\* the catalogue entries that hold something else than a web function tool
CustomEntries(tools) ==
  {tools[i] : i \in {j \in 1..Len(tools) :
                       tools[j].v \notin {web_search, get_page_content}}}

\* refresh(): clear both dictionaries, then _discover_tools(); `discarded`
\* keeps the custom entries the catalogue held before
Refresh_KeepsCatalogue ==
  /\ _registry # None
  /\ _web_search_tool' = get_web_search_tool(_web_search_tool, _settings)
  /\ LET d == _discover_tools(_registry.tools, _registry.status,
                              _web_search_tool', _settings)
     IN  /\ _registry' = [tools |-> d.tools, status |-> d.status]
         /\ arrival' = Entered(arrival, d.tools)
  /\ lastOp' = [op |-> "refresh",
                again |-> lastOp.op = "refresh",
                after |-> IF lastOp.op = "configure" THEN lastOp.after
                          ELSE "other",
                discarded |-> CustomEntries(_registry.tools)]
  /\ UNCHANGED _settings
Refresh ==
  /\ _registry # None
  /\ _web_search_tool' = get_web_search_tool(_web_search_tool, _settings)
  /\ LET d == _discover_tools(<<>>, <<>>, _web_search_tool', _settings)
     IN  /\ _registry' = [tools |-> d.tools, status |-> d.status]
         /\ arrival' = Entered(<<>>, d.tools)
  /\ lastOp' = [op |-> "refresh",
                again |-> lastOp.op = "refresh",
                after |-> IF lastOp.op = "configure" THEN lastOp.after
                          ELSE "other",
                discarded |-> CustomEntries(_registry.tools)]
  /\ UNCHANGED _settings

\* register_tool(tool, name)
Register(tool, name) ==
  /\ _registry # None
  /\ LET tool_name == RegisteredName(tool, name)
     IN  /\ _registry' =
               [tools |-> DictSet(_registry.tools, tool_name, tool),
                status |-> DictSet(_registry.status, tool_name,
                                   CustomStatus(tool_name, tool))]
         /\ arrival' = IF tool_name \in Keys(_registry.tools) THEN arrival
                       ELSE Append(arrival, tool_name)
         /\ lastOp' = [op |-> "register_tool", name |-> tool_name,
                       tool |-> tool]
  /\ UNCHANGED <<_settings, _web_search_tool>>

\* unregister_tool(name): what it returns and the dictionaries it leaves;
\* del raises KeyError on a name that has no status entry
unregister_tool_KeepsStatus(registry, name) ==
  IF name \in Keys(registry.tools)
  THEN [ret |-> Ret(TRUE),
        registry |-> [registry EXCEPT !.tools = DictDel(@, name)]]
  ELSE [ret |-> Ret(FALSE), registry |-> registry]
unregister_tool(registry, name) ==
  IF name \in Keys(registry.tools)
  THEN IF name \in Keys(registry.status)
       THEN [ret |-> Ret(TRUE),
             registry |-> [tools |-> DictDel(registry.tools, name),
                           status |-> DictDel(registry.status, name)]]
       ELSE [ret |-> Throw(Exc("KeyError", <<name>>, None)),
             registry |-> [registry EXCEPT !.tools = DictDel(@, name)]]
  ELSE [ret |-> Ret(FALSE), registry |-> registry]

Unregister(name) ==
  /\ _registry # None
  /\ LET u == unregister_tool(_registry, name)
     IN  /\ _registry' = u.registry
         /\ lastOp' = [op |-> "unregister_tool", name |-> name, ret |-> u.ret]
  /\ arrival' = SelectSeq(arrival, LAMBDA n : n # name)
  /\ UNCHANGED <<_settings, _web_search_tool>>

\* get_tool_status(): `second` marks a call that follows an earlier call
\* with only reloads of the settings in between
GetToolStatus ==
  /\ _registry # None
  /\ lastOp' = [op |-> "get_tool_status",
                ret |-> get_tool_status(_registry.status),
                second |-> lastOp.op = "configure"
                           /\ lastOp.after = "get_tool_status"]
  /\ UNCHANGED <<_settings, _web_search_tool, _registry, arrival>>

\* get_available_tools(): `repeated` marks a call that directly follows
\* another one, whose result is kept in `previous`
GetAvailableTools ==
  /\ _registry # None
  /\ lastOp' = [op |-> "get_available_tools",
                ret |-> get_available_tools(_registry.tools, _registry.status),
                repeated |-> lastOp.op = "get_available_tools",
                previous |-> IF lastOp.op = "get_available_tools"
                             THEN lastOp.ret ELSE <<>>]
  /\ UNCHANGED <<_settings, _web_search_tool, _registry, arrival>>

NextRegistry ==
  \/ \E s \in LoadedSettings : Configure(s) /\ UNCHANGED <<chatVars, callVars, streamVars, loggerVars>>
  \/ GetWebSearchTool /\ UNCHANGED <<chatVars, callVars, streamVars, loggerVars>>
  \/ Build /\ UNCHANGED <<chatVars, callVars, streamVars, loggerVars>>
  \/ Discover /\ UNCHANGED <<chatVars, callVars, streamVars, loggerVars>>
  \/ Refresh /\ UNCHANGED <<chatVars, callVars, streamVars, loggerVars>>
  \/ \E r \in Registrations :
       Register(r[1], r[2]) /\ UNCHANGED <<chatVars, callVars, streamVars, loggerVars>>
  \/ \E n \in UnregisterNames :
       Unregister(n) /\ UNCHANGED <<chatVars, callVars, streamVars, loggerVars>>
  \/ GetToolStatus /\ UNCHANGED <<chatVars, callVars, streamVars, loggerVars>>
  \/ GetAvailableTools /\ UNCHANGED <<chatVars, callVars, streamVars, loggerVars>>

SpecRegistry == InitRegistry /\ [][NextRegistry]_vars

\* ------------------------------------------------------------------------
\* State machine of the process-wide objects as the CLI and the module
\* functions of the registry use them
\* ------------------------------------------------------------------------
\* ToolRegistry(settings): the instance keeps the settings it was given, or
\* the global ones, and fills its dictionaries by discovery, which reads
\* the global settings and the singleton tool
ToolRegistry(settings, singleton, global) ==
  LET d == _discover_tools(<<>>, <<>>, singleton, global)
  IN  [tools |-> d.tools,
       status |-> d.status,
       settings |-> IF settings = None THEN global ELSE settings]

\* get_tool_registry(settings): the instance it returns
get_tool_registry_PerSettings(registry, settings, singleton, global) ==
  IF registry = None \/ (settings # None /\ settings # registry.settings)
  THEN ToolRegistry(settings, singleton, global)
  ELSE registry
get_tool_registry(registry, settings, singleton, global) ==
  IF registry = None
  THEN ToolRegistry(settings, singleton, global)
  ELSE registry

\* registry.get_summary()
get_summary(tools, status) ==
  LET Available(i) == GetAttr(status[i].v, "available", FALSE)
      Category(i) == GetAttr(status[i].v, "category", "unknown")
      available == SelectSeq(status,
                             LAMBDA e : GetAttr(e.v, "available", FALSE))
  IN  [total_tools |-> Len(tools),
       available_tools |-> Len(available),
       categories |->
         [c \in {Category(i) : i \in 1..Len(status)} |->
            [total |-> Cardinality({i \in 1..Len(status) : Category(i) = c}),
             available |-> Cardinality({i \in 1..Len(status) :
                                          Category(i) = c /\ Available(i)})]],
       tool_names |-> KeySeq(tools),
       available_tool_names |-> KeySeq(available)]

\* the model argument of the CLI entry points
OtherModel == Str(<<"gpt-oss-20b">>)
ModelArgs == {None, Str(<<>>), OtherModel}

\* the settings argument of the registry's module functions: omitted, or a
\* Settings object with or without a credential
SettingsArgs ==
  {None,
   Settings(ExaConfig(ValidKey, Absent, DefaultMaxResults), None),
   Settings(ExaConfig(None, Absent, DefaultMaxResults), None)}

InitProcess ==
  /\ ChatIdle
  /\ _settings \in LoadedSettings
  /\ RegistryIdle
  /\ CallIdle
  /\ StreamIdle
  /\ LoggerIdle

\* the call get_tool_registry(settings) inside a step, under the global
\* settings of that moment
WithRegistry(settings, global) ==
  /\ _web_search_tool' =
       IF _registry = None
       THEN get_web_search_tool(_web_search_tool, global)
       ELSE _web_search_tool
  /\ _registry' =
       get_tool_registry(_registry, settings, _web_search_tool', global)
  /\ arrival' = IF _registry = None THEN Entered(<<>>, _registry'.tools)
                ELSE arrival

\* get_tool_registry(settings)
GetToolRegistry(settings) ==
  /\ WithRegistry(settings, _settings)
  /\ lastOp' = [op |-> "get_tool_registry", settings |-> settings,
                first |-> _registry = None, ret |-> _registry']
  /\ UNCHANGED _settings

\* the module function get_available_tools(settings)
GetAvailableToolsOf(settings) ==
  /\ WithRegistry(settings, _settings)
  /\ lastOp' = [op |-> "get_available_tools", settings |-> settings,
                first |-> _registry = None,
                ret |-> get_available_tools(_registry'.tools,
                                            _registry'.status)]
  /\ UNCHANGED _settings

\* check_all_tools_status(settings)
CheckAllToolsStatus(settings) ==
  /\ WithRegistry(settings, _settings)
  /\ lastOp' = [op |-> "check_all_tools_status", settings |-> settings,
                first |-> _registry = None,
                ret |-> get_summary(_registry'.tools, _registry'.status)]
  /\ UNCHANGED _settings

\* the first statements of quick_chat(message, model) and of
\* interactive_chat(model): the global settings are fetched, the model name
\* is written into them, the available tools are asked for with them. The
\* agent both entry points then create and run is the chat() of Spec.
Override(settings, model) ==
  IF Truthy(model) THEN [settings EXCEPT !.vllm.model = model] ELSE settings

QuickChat(model) ==
  /\ _settings' = Override(_settings, model)
  /\ WithRegistry(_settings', _settings')
  /\ lastOp' = [op |-> "quick_chat", model |-> model,
                tools |-> get_available_tools(_registry'.tools,
                                              _registry'.status)]

InteractiveChat(model) ==
  /\ _settings' = Override(_settings, model)
  /\ WithRegistry(_settings', _settings')
  /\ lastOp' = [op |-> "interactive_chat", model |-> model,
                tools |-> get_available_tools(_registry'.tools,
                                              _registry'.status)]

\* reload_settings() under an environment, configure_from_dict(): a nested
\* credential, the enabled flag supplied or not, a legacy EXA_API_KEY
LegacyKeys == {None, EmptyKey, ValidKey}
Load(api_key, enabled, legacy) ==
  Configure(Settings(ExaConfig(api_key, enabled, DefaultMaxResults), legacy))

NextProcess ==
  \/ \E k \in ApiKeys, e \in EnabledInputs, l \in LegacyKeys :
       Load(k, e, l) /\ UNCHANGED <<chatVars, callVars, streamVars, loggerVars>>
  \/ \E s \in SettingsArgs :
       GetToolRegistry(s) /\ UNCHANGED <<chatVars, callVars, streamVars, loggerVars>>
  \/ \E s \in SettingsArgs :
       GetAvailableToolsOf(s) /\ UNCHANGED <<chatVars, callVars, streamVars, loggerVars>>
  \/ \E s \in SettingsArgs :
       CheckAllToolsStatus(s) /\ UNCHANGED <<chatVars, callVars, streamVars, loggerVars>>
  \/ \E m \in ModelArgs :
       QuickChat(m) /\ UNCHANGED <<chatVars, callVars, streamVars, loggerVars>>
  \/ \E m \in ModelArgs :
       InteractiveChat(m) /\ UNCHANGED <<chatVars, callVars, streamVars, loggerVars>>

SpecProcess == InitProcess /\ [][NextProcess]_vars

\* ------------------------------------------------------------------------
\* State machine of one tool or client call
\* ------------------------------------------------------------------------
\* settings the call runs under: no credential, the placeholder, a valid
\* credential with the default or another max_results, a disabled search
ConfiguredMaxResults == {DefaultMaxResults, 7}
CallSettings ==
  { Settings(ExaConfig(k, Absent, m), None) :
      k \in {None, PlaceholderKey, ValidKey}, m \in ConfiguredMaxResults }
  \cup { Settings(ExaConfig(ValidKey, Bool(FALSE), DefaultMaxResults), None) }

InitCalls ==
  /\ ChatIdle
  /\ _settings \in CallSettings
  /\ RegistryIdle
  /\ CallIdle
  /\ StreamIdle
  /\ LoggerIdle

ModelFacing == {"web_search", "get_page_content"}

\* the result of execute(): logging follows a returned text, a raised
\* exception leaves the function tool at once
Executed(out) ==
  [stage |-> IF out.k = "return" THEN "executed" ELSE "done", out |-> out]

\* what a function tool has after execute() went as far as it can without
\* the provider
Started(fn, r) ==
  /\ request' = IF r.k = "request" THEN r.payload ELSE NotYet
  /\ toolResult' = CASE r.k = "request" -> NotYet
                     [] r.k = "raise" -> Executed(ExecuteCatch(fn, r.e))
                     [] OTHER -> Executed(r)

\* web_search(query, num_results): get_web_search_tool().execute(...)
CallWebSearch(query, num_results) ==
  /\ call = NotYet
  /\ _web_search_tool' = get_web_search_tool(_web_search_tool, _settings)
  /\ call' = [fn |-> "web_search", arg |-> query,
              num_results |-> Num(num_results)]
  /\ Started("web_search",
             ExecuteRequest("web_search", _web_search_tool', query,
                            num_results))
  /\ UNCHANGED <<_settings, _registry, lastOp, arrival, answer>>

\* get_page_content(url): get_page_content_tool().execute(url), the tool's
\* client being created by this first use
CallGetPageContent(url) ==
  /\ call = NotYet
  /\ call' = [fn |-> "get_page_content", arg |-> url, num_results |-> None]
  /\ Started("get_page_content",
             ExecuteRequest("get_page_content", ExaSearchClient(_settings),
                            url, DefaultMaxResults))
  /\ UNCHANGED <<registryVars, answer>>

\* what a direct client call has before the provider answers
ClientStarted(r) ==
  /\ request' = IF r.k = "request" THEN r.payload ELSE NotYet
  /\ toolResult' = IF r.k = "request" THEN NotYet
                   ELSE [stage |-> "done", out |-> r]

\* ExaSearchClient().search(query, num_results)
CallSearch(query, num_results) ==
  /\ call = NotYet
  /\ call' = [fn |-> "search", arg |-> query, num_results |-> num_results]
  /\ ClientStarted(SearchRequest(ExaSearchClient(_settings), query,
                                 num_results))
  /\ UNCHANGED <<registryVars, answer>>

\* ExaSearchClient().get_content(url)
CallGetContent(url) ==
  /\ call = NotYet
  /\ call' = [fn |-> "get_content", arg |-> url, num_results |-> None]
  /\ ClientStarted(ContentRequest(ExaSearchClient(_settings), url))
  /\ UNCHANGED <<registryVars, answer>>

\* requests.post returns or raises; the client and, for a function tool,
\* execute() handle it
ProviderAnswers(a) ==
  /\ request # NotYet
  /\ answer = NotYet
  /\ answer' = a
  /\ LET op == IF request.endpoint = "search" THEN "search" ELSE "content"
         got == ClientOutcome(op, a)
     IN  toolResult' =
           IF call.fn \in ModelFacing
           THEN Executed(ExecuteOutcome(call.fn, call.arg, got))
           ELSE [stage |-> "done", out |-> got]
  /\ UNCHANGED <<registryVars, call, request>>

\* the debug logging of the function tool, then return result
LogExecution(log) ==
  /\ toolResult # NotYet
  /\ toolResult.stage = "executed"
  /\ toolResult' = [stage |-> "done",
                    out |-> AfterLogging(toolResult.out, log),
                    log |-> log,
                    success |-> Success(toolResult.out.v)]
  /\ UNCHANGED <<registryVars, call, request, answer>>

NextCalls ==
  \/ \E q \in Queries, n \in ToolCounts :
       CallWebSearch(q, n) /\ UNCHANGED <<chatVars, streamVars, loggerVars>>
  \/ \E u \in Urls : CallGetPageContent(u) /\ UNCHANGED <<chatVars, streamVars, loggerVars>>
  \/ \E q \in Queries, n \in ClientCounts :
       CallSearch(q, n) /\ UNCHANGED <<chatVars, streamVars, loggerVars>>
  \/ \E u \in Urls : CallGetContent(u) /\ UNCHANGED <<chatVars, streamVars, loggerVars>>
  \/ \E a \in Answers : ProviderAnswers(a) /\ UNCHANGED <<chatVars, streamVars, loggerVars>>
  \/ \E l \in LogOutcomes : LogExecution(l) /\ UNCHANGED <<chatVars, streamVars, loggerVars>>

SpecCalls == InitCalls /\ [][NextCalls]_vars

\* ------------------------------------------------------------------------
\* State machine of one DebugLogger session
\* ------------------------------------------------------------------------
MaxEvents == 4

\* f"{n:03d}"
Pad3(n) ==
  IF Len(Digits(n)) < 3 THEN Rep("0", 3 - Len(Digits(n))) \o Digits(n)
  ELSE Digits(n)

\* datetime.now().strftime("%Y%m%d_%H%M%S") at the creation of the logger
SessionId == <<"20250101_120000">>

\* DebugLogger(): the counter starts at 0, enabled comes from the settings
DebugLogger(enabled) ==
  [session_id |-> SessionId, message_count |-> 0, enabled |-> enabled]

\* f"{session_id}_msg{message_count:03d}_{suffix}.json"
LogFileName(logger, suffix) ==
  logger.session_id \o <<"_msg">> \o Pad3(logger.message_count)
  \o <<"_">> \o suffix \o <<".json">>

\* _write_log_file(filename, data): nothing when disabled, else the file is
\* opened for writing, which replaces a file of that name
_write_log_file(dir, logger, filename, data) ==
  IF ~logger.enabled THEN dir ELSE DictSet(dir, filename, data)

\* the data of one event: its type, the counter, and the place of the call
\* among the log calls of the session, standing for its contents
LogData(logger, type, nth) ==
  [type |-> type, message_count |-> logger.message_count, event |-> nth]

InitLogger ==
  /\ ChatIdle
  /\ _settings = DefaultSettings
  /\ RegistryIdle
  /\ CallIdle
  /\ StreamIdle
  /\ LoggerIdle

\* get_debug_logger(): the first use creates the logger
GetDebugLogger(enabled) ==
  /\ debugLogger = NotYet
  /\ debugLogger' = DebugLogger(enabled)
  /\ UNCHANGED <<files, logged>>

\* one log call that keeps the counter: the file is named after the
\* counter and the suffix
LogWith(logger, suffix, type) ==
  /\ debugLogger # NotYet
  /\ logged < MaxEvents
  /\ debugLogger' = logger
  /\ logged' = logged + 1
  /\ files' = _write_log_file(files, logger, LogFileName(logger, suffix),
                              LogData(logger, type, logged'))

\* log_user_input(message): the only call that advances the counter
log_user_input ==
  LogWith([debugLogger EXCEPT !.message_count = @ + 1],
          <<"input">>, "user_input")

\* log_agent_response(response, metadata)
log_agent_response == LogWith(debugLogger, <<"response">>, "agent_response")

\* log_runner_result(result)
log_runner_result ==
  LogWith(debugLogger, <<"runner_result">>, "runner_result")

\* log_tool_execution(tool_name, args, result)
log_tool_execution(tool_name) ==
  LogWith(debugLogger, <<"tool_", tool_name>>, "tool_execution")

\* log_error(error, context)
log_error == LogWith(debugLogger, <<"error">>, "error")

Switches == {TRUE, FALSE}

NextLogger ==
  \/ \E e \in Switches :
       GetDebugLogger(e) /\ UNCHANGED <<chatVars, registryVars, callVars, streamVars>>
  \/ log_user_input /\ UNCHANGED <<chatVars, registryVars, callVars, streamVars>>
  \/ log_agent_response /\ UNCHANGED <<chatVars, registryVars, callVars, streamVars>>
  \/ log_runner_result /\ UNCHANGED <<chatVars, registryVars, callVars, streamVars>>
  \/ \E n \in ModelFacing :
       log_tool_execution(n) /\ UNCHANGED <<chatVars, registryVars, callVars, streamVars>>
  \/ log_error /\ UNCHANGED <<chatVars, registryVars, callVars, streamVars>>

SpecLogger == InitLogger /\ [][NextLogger]_vars

\* ------------------------------------------------------------------------
\* State machine of one process_streaming_response call
\* ------------------------------------------------------------------------
MaxStream == 4
MaxCalls == 2

\* StreamHandler(show_reasoning, show_tools): the fields after __init__,
\* which are also the ones process_stream starts from
StreamHandler(show_reasoning, show_tools) ==
  [show_reasoning |-> show_reasoning,
   show_tools |-> show_tools,
   buffer |-> <<>>,
   reasoning_buffer |-> <<>>,
   final_response |-> Str(<<>>),
   tool_calls |-> <<>>,
   is_complete |-> FALSE]

\* RichStreamDisplay(show_reasoning)
RichStreamDisplay(show_reasoning) ==
  [show_reasoning |-> show_reasoning,
   response_text |-> <<>>,
   reasoning_text |-> <<>>,
   tool_text |-> <<>>]

\* an event of the stream; its data is None or an object
Event(type, data) == [type |-> type, data |-> data]
Data(fields) == [t |-> "obj"] @@ fields

_handle_text_delta(h, data) ==
  IF Truthy(data) /\ "delta" \in DOMAIN data
  THEN [h EXCEPT !.buffer = @ \o data.delta]
  ELSE h

_handle_reasoning_delta(h, data) ==
  IF h.show_reasoning /\ Truthy(data) /\ "delta" \in DOMAIN data
  THEN [h EXCEPT !.reasoning_buffer = @ \o data.delta]
  ELSE h

_handle_tool_invocation(h, data) ==
  IF h.show_tools /\ Truthy(data)
  THEN [h EXCEPT !.tool_calls =
          Append(@, [name |-> GetAttr(data, "name", "unknown_tool"),
                     arguments |-> GetAttr(data, "arguments", <<>>),
                     status |-> "invoked"])]
  ELSE h

\* the result goes to the last tool call
_handle_tool_result(h, data) ==
  IF h.show_tools /\ Truthy(data) /\ h.tool_calls # <<>>
  THEN LET last == h.tool_calls[Len(h.tool_calls)]
       IN  [h EXCEPT !.tool_calls[Len(h.tool_calls)] =
              [name |-> last.name, arguments |-> last.arguments,
               status |-> "completed",
               result |-> GetAttr(data, "result", Str(<<"No result">>))]]
  ELSE h

_handle_response_done(h, data) == [h EXCEPT !.is_complete = TRUE]

\* StreamHandler._handle_event
_handle_event(h, event) ==
  IF ~Truthy(event.type) THEN h
  ELSE CASE event.type = Str(<<"response.output_text.delta">>) ->
              _handle_text_delta(h, event.data)
         [] event.type = Str(<<"response.reasoning.delta">>) ->
              _handle_reasoning_delta(h, event.data)
         [] event.type = Str(<<"tool.invocation">>) ->
              _handle_tool_invocation(h, event.data)
         [] event.type = Str(<<"tool.result">>) ->
              _handle_tool_result(h, event.data)
         [] event.type = Str(<<"response.done">>) ->
              _handle_response_done(h, event.data)
         [] OTHER -> h

\* RichStreamDisplay._handle_display_event
_handle_display_event(d, event) ==
  CASE event.type = Str(<<"response.output_text.delta">>)
         /\ Truthy(event.data) ->
         [d EXCEPT !.response_text = @ \o event.data.delta]
    [] event.type = Str(<<"response.reasoning.delta">>)
         /\ Truthy(event.data) /\ d.show_reasoning ->
         [d EXCEPT !.reasoning_text = @ \o event.data.delta]
    [] event.type = Str(<<"tool.invocation">>) /\ Truthy(event.data) ->
         [d EXCEPT !.tool_text =
            @ \o <<"Using tool: ", GetAttr(event.data, "name", "unknown"),
                   "\n">>]
    [] OTHER -> d

\* the events that carry no tool
PlainEvents ==
  { Event(Str(<<"response.created">>), None),
    Event(Str(<<"response.output_text.delta">>), Data([delta |-> <<"a">>])),
    Event(Str(<<"response.output_text.delta">>), None),
    Event(Str(<<"response.reasoning.delta">>), Data([delta |-> <<"r">>])),
    Event(Str(<<"response.done">>), None),
    Event(Str(<<"response.other">>), None),
    Event(None, None) }

\* the tool events the stream can deliver next: the invocation of one more
\* call, the result of a call invoked and not yet answered, and, before
\* any invocation, a result that answers none (call 0)
Invocation(n) ==
  Event(Str(<<"tool.invocation">>),
        Data([name |-> "web_search", arguments |-> [call |-> n]]))
Result(n) == Event(Str(<<"tool.result">>), Data([result |-> [of |-> n]]))
ToolEvents ==
  IF stream = NotYet THEN {}
  ELSE (IF stream.invoked < MaxCalls
        THEN {Invocation(stream.invoked + 1)} ELSE {})
       \cup {Result(n) : n \in (1..stream.invoked) \ stream.answered}
       \cup (IF stream.invoked = 0 THEN {Result(0)} ELSE {})

\* what the stream has delivered after one more event
Delivered1(event) ==
  [stream EXCEPT
     !.delivered = @ + 1,
     !.invoked = IF event.type = Str(<<"tool.invocation">>) THEN @ + 1 ELSE @,
     !.answered = IF event.type = Str(<<"tool.result">>)
                  THEN @ \cup {event.data.result.of} ELSE @]

\* the final_output attribute of the stream result, Absent when it has none
FinalOutputs == {Absent, Str(<<"P">>)}

InitStream ==
  /\ ChatIdle
  /\ _settings = DefaultSettings
  /\ RegistryIdle
  /\ CallIdle
  /\ StreamIdle
  /\ LoggerIdle

\* process_streaming_response(stream_result, use_rich, show_reasoning) up
\* to the loop over the events
ProcessStreamingResponse(final_output, use_rich, show_reasoning) ==
  /\ stream = NotYet
  /\ stream' = [final_output |-> final_output, use_rich |-> use_rich,
                delivered |-> 0, invoked |-> 0, answered |-> {}]
  /\ handler' = StreamHandler(show_reasoning, TRUE)
  /\ display' = IF use_rich THEN RichStreamDisplay(show_reasoning) ELSE None
  /\ returned' = NotYet

\* one turn of `async for event in stream_result.stream_events()`, in
\* process_stream or in display_stream
StreamYields(event) ==
  /\ stream # NotYet
  /\ returned = NotYet
  /\ stream.delivered < MaxStream
  /\ stream' = Delivered1(event)
  /\ IF stream.use_rich
     THEN /\ display' = _handle_display_event(display, event)
          /\ UNCHANGED handler
     ELSE /\ handler' = _handle_event(handler, event)
          /\ UNCHANGED display
  /\ UNCHANGED returned

\* process_stream after the loop
process_stream_ends(h, stream_result) ==
  LET final == IF stream_result.final_output # Absent
               THEN [h EXCEPT !.final_response = stream_result.final_output]
               ELSE h
  IN  [final EXCEPT !.is_complete = TRUE]

\* what display_stream returns after the loop
display_stream_returns(h, stream_result) == h.final_response

\* the stream is exhausted: process_stream sets the final response and
\* returns it, display_stream returns its handler's final response
StreamEnds ==
  /\ stream # NotYet
  /\ returned = NotYet
  /\ IF stream.use_rich
     THEN /\ returned' = [k |-> "return",
                          v |-> display_stream_returns(handler, stream),
                          ended |-> TRUE]
          /\ UNCHANGED handler
     ELSE /\ handler' = process_stream_ends(handler, stream)
          /\ returned' = [k |-> "return", v |-> handler'.final_response,
                          ended |-> TRUE]
  /\ UNCHANGED <<stream, display>>

\* stream_events() raises: process_stream turns the exception into a
\* text, display_stream lets it through
StreamErrors == {Exc("RuntimeError", <<"stream broken">>, None)}
StreamRaises(e) ==
  /\ stream # NotYet
  /\ returned = NotYet
  /\ returned' = IF stream.use_rich
                 THEN [k |-> "raise", e |-> e, ended |-> FALSE]
                 ELSE [k |-> "return", v |-> Str(<<"Error: ">> \o e.msg),
                       ended |-> FALSE]
  /\ UNCHANGED <<stream, handler, display>>

NextStream ==
  \/ \E f \in FinalOutputs, u \in Switches, r \in Switches :
       ProcessStreamingResponse(f, u, r) /\ UNCHANGED <<chatVars, registryVars, callVars, loggerVars>>
  \/ \E e \in PlainEvents \cup ToolEvents :
       StreamYields(e) /\ UNCHANGED <<chatVars, registryVars, callVars, loggerVars>>
  \/ StreamEnds /\ UNCHANGED <<chatVars, registryVars, callVars, loggerVars>>
  \/ \E e \in StreamErrors :
       StreamRaises(e) /\ UNCHANGED <<chatVars, registryVars, callVars, loggerVars>>

SpecStream == InitStream /\ [][NextStream]_vars

\* ------------------------------------------------------------------------
\* Properties
\* ------------------------------------------------------------------------
\* _extract_response has run on result
Ran == extracted.k # "notyet"

\* a value that is present and not empty
NonEmpty(v) == v \notin {Absent, None, Str(<<>>), List(<<>>), Num(0)}

Sentinel == Ret(Str(<<>>))

AllAltAbsent(r) ==
  r.output = Absent /\ r.outputs = Absent /\ r.response = Absent /\ r.content = Absent

\* C1: when final_output is present and non-empty, _extract_response returns
\* exactly str(final_output), whatever the other fields hold
C1_FinalOutputWins ==
  (Ran /\ NonEmpty(result.final_output))
    => extracted = Ret(Str(ToStr(result.final_output)))

\* a non-string final_output is stringified although every later tier has text
C1_Witness ==
  /\ Ran
  /\ result.final_output = Num(42)
  /\ extracted = Ret(Str(<<"4", "2">>))
  /\ result.output = Str(<<"o">>)
  /\ result.new_items = OneMessage
  /\ result.raw_responses = OneRaw

\* the value a top-level field stands for: the last element of a sequence
C2_Value(v) == IF IsList(v) /\ v.v # <<>> THEN v.v[Len(v.v)] ELSE v

C2_Order == <<"output", "outputs", "response", "content">>

\* C2: with final_output absent or empty, the first of output, outputs,
\* response, content (in that order) whose value, or last element, is
\* non-empty is returned stringified, whatever new_items and raw_responses hold
C2_AltFieldsInOrder ==
  (Ran /\ ~NonEmpty(result.final_output))
    => \A i \in 1..Len(C2_Order) :
         ( /\ NonEmpty(C2_Value(result[C2_Order[i]]))
           /\ \A j \in 1..(i - 1) : ~NonEmpty(C2_Value(result[C2_Order[j]])) )
         => extracted = Ret(Str(ToStr(C2_Value(result[C2_Order[i]]))))

\* outputs yields its last element although new_items would raise if scanned
C2_Witness ==
  /\ Ran
  /\ result.final_output = Str(<<>>)
  /\ result.output = None
  /\ result.outputs = List(<<Str(<<"a">>), Str(<<"b">>)>>)
  /\ result.response = Num(7)
  /\ result.new_items = OneNullType
  /\ extracted = Ret(Str(<<"b">>))

\* C3: _extract_response never raises and always returns a string
C3_NeverRaises ==
  Ran => (extracted.k = "return" /\ extracted.v.t = "str")

\* chat has finished after _extract_response returned the empty sentinel
EmptyExtracted == pc = "done" /\ extracted = Sentinel

\* C4: when _extract_response returns the sentinel, chat raises
\* EmptyResponseError, never a plain AgentError
C4_EmptyRaisesEmptyResponseError ==
  EmptyExtracted => (outcome.k = "raise" /\ outcome.e.type = "EmptyResponseError")

\* C5: an exception of Runner.run_sync leaves chat as an AgentError carrying
\* its message, and a plain AgentError comes only from Runner.run_sync
C5_AgentErrorOnlyFromRunner ==
  /\ (pc = "done" /\ raisedAt = "runner")
       => /\ outcome.k = "raise"
          /\ outcome.e.type \in {"AgentError", "EmptyResponseError"}
          /\ Contains(outcome.e.msg, exc.msg)
  /\ (pc = "done" /\ outcome.k = "raise" /\ outcome.e.type = "AgentError")
       => raisedAt = "runner"

\* C6: chat ends either returning a non-empty string or raising AgentError
\* or EmptyResponseError; nothing else is returned and nothing else escapes
C6_ChatOutcomes ==
  pc = "done"
    => \/ /\ outcome.k = "return"
          /\ outcome.v.t = "str"
          /\ outcome.v.v # <<>>
       \/ /\ outcome.k = "raise"
          /\ outcome.e.type \in {"AgentError", "EmptyResponseError"}

\* a TypeError of the extraction leaves chat wrapped in an AgentError
C6_Witness ==
  /\ pc = "done"
  /\ raisedAt = "extract"
  /\ exc.type = "TypeError"
  /\ outcome.k = "raise"
  /\ outcome.e.type = "AgentError"

\* no top-level field yields text
TopLevelNothing(r) == FinalOutputTier(r).k = "none" /\ AltTier(r, 1).k = "none"

\* C7: when no top-level field yields text, the candidate of the
\* highest-index item of new_items that yields one is returned
C7_LastYieldingItemWins ==
  (Ran /\ TopLevelNothing(result) /\ IsList(result.new_items))
    => \A i \in 1..Len(result.new_items.v) :
         ( /\ ItemOutcome(result.new_items.v[i]).k = "return"
           /\ \A j \in (i + 1)..Len(result.new_items.v) :
                ItemOutcome(result.new_items.v[j]).k # "return" )
         => extracted = ItemOutcome(result.new_items.v[i])

\* the texts of the content list of the last item of new_items
C8_Texts(r) ==
  LET items == r.new_items.v
      entries == items[Len(items)].raw_item.content.v IN
  [j \in 1..Len(entries) |-> Attr(entries[j], "text")]

\* the last item of new_items is a message_output_item with a content list
C8_LastIsMessageOutput(r) ==
  /\ IsList(r.new_items) /\ r.new_items.v # <<>>
  /\ LET last == r.new_items.v[Len(r.new_items.v)] IN
       /\ last.type = Str(MessageOutputItem)
       /\ last.raw_item # Absent
       /\ IsList(last.raw_item.content)

\* C8: with empty final_output and no alternative field, when the last item
\* is a message_output_item the first non-empty text of its content list is
\* returned unchanged
C8_MessageOutputText ==
  (Ran /\ ~NonEmpty(result.final_output) /\ AllAltAbsent(result)
       /\ C8_LastIsMessageOutput(result))
    => \A j \in DOMAIN C8_Texts(result) :
         ( /\ NonEmpty(C8_Texts(result)[j])
           /\ \A k \in 1..(j - 1) : ~NonEmpty(C8_Texts(result)[k]) )
         => extracted = Ret(C8_Texts(result)[j])

\* the padded text " A " follows a null, an empty and a missing text and is
\* returned with its padding, although an earlier item and raw_responses
\* also hold text
C8_Witness ==
  /\ Ran /\ AllAltAbsent(result) /\ ~NonEmpty(result.final_output)
  /\ C8_LastIsMessageOutput(result)
  /\ Len(result.new_items.v) = 2
  /\ ItemOutcome(result.new_items.v[1]).k = "return"
  /\ result.raw_responses = OneRaw
  /\ extracted = Ret(Str(<<" ", "A", " ">>))

\* t without its leading and trailing whitespace
Trimmed(t) ==
  LET inked == {i \in 1..Len(t) : t[i] \notin Whitespace} IN
  IF inked = {} THEN <<>>
  ELSE SubSeq(t, CHOOSE i \in inked : \A j \in inked : i <= j,
                 CHOOSE i \in inked : \A j \in inked : i >= j)

\* the only content of r is one reasoning item whose text is a string or
\* one text-bearing entry
C9_SingleReasoning(r) ==
  /\ ~NonEmpty(r.final_output) /\ AllAltAbsent(r) /\ r.raw_responses = Absent
  /\ IsList(r.new_items) /\ Len(r.new_items.v) = 1
  /\ LET item == r.new_items.v[1] IN
       /\ item.type = Str(ReasoningItem)
       /\ item.content = Absent
       /\ item.raw_item # Absent
       /\ \/ IsStr(item.raw_item.content)
          \/ /\ IsList(item.raw_item.content)
             /\ Len(item.raw_item.content.v) = 1
             /\ IsStr(Attr(item.raw_item.content.v[1], "text"))

C9_Text(r) ==
  LET c == r.new_items.v[1].raw_item.content IN
  IF IsStr(c) THEN c.v ELSE c.v[1].text.v

C9_Accepts(t) ==
  /\ ~StartsWith(t, <<"I"," ","n","e","e","d"," ","t","o">>)
  /\ ~StartsWith(t, <<"L","e","t"," ","m","e">>)
  /\ ~StartsWith(t, <<"{">>)
  /\ Len(t) > 50

\* C9 as stated: the text t itself is tested and returned
C9_ReasoningTextAsGiven ==
  (Ran /\ C9_SingleReasoning(result))
    => extracted = IF C9_Accepts(C9_Text(result))
                   THEN Ret(Str(C9_Text(result)))
                   ELSE Sentinel

\* C9 (amended): for a result whose only content is one reasoning item with
\* text t, the text t without its leading and trailing whitespace is returned
\* if and only if that trimmed text starts with none of "I need to", "Let me"
\* and "{" and is longer than 50 characters; otherwise the sentinel is returned
C9_ReasoningTextTrimmed ==
  (Ran /\ C9_SingleReasoning(result))
    => extracted = IF C9_Accepts(Trimmed(C9_Text(result)))
                   THEN Ret(Str(Trimmed(C9_Text(result))))
                   ELSE Sentinel

\* a text of 51 characters and a trailing blank is returned without the blank
C9_Witness ==
  /\ Ran /\ C9_SingleReasoning(result)
  /\ C9_Text(result) = Rep("x", 51) \o <<" ">>
  /\ extracted = Ret(Str(Rep("x", 51)))

\* the value at choices[0].message.content of a raw response
C10_Choice(e) ==
  LET choices == Attr(e, "choices") IN
  IF IsList(choices) /\ choices.v # <<>>
  THEN Attr(Attr(choices.v[1], "message"), "content")
  ELSE Absent

NonBlank(v) == IsStr(v) /\ \E i \in 1..Len(v.v) : v.v[i] \notin Whitespace

\* the non-empty text found in a raw response, as the claim states it
C10_Found(e) ==
  IF NonEmpty(C10_Choice(e)) THEN C10_Choice(e)
  ELSE IF NonEmpty(Attr(e, "content")) THEN Attr(e, "content")
  ELSE Absent

\* the text a raw response yields: non-blank, the choice content trimmed
C10_Yield(e) ==
  IF NonBlank(C10_Choice(e)) THEN Str(Trimmed(C10_Choice(e).v))
  ELSE IF NonBlank(Attr(e, "content")) THEN Attr(e, "content")
  ELSE Absent

\* every tier before raw_responses ran to its end without text
C10_NothingBefore(r) == TopLevelNothing(r) /\ NewItemsTier(r).k = "none"

\* a tier before raw_responses returns text
C10_TextBefore(r) ==
  \/ FinalOutputTier(r).k = "return"
  \/ AltTier(r, 1).k = "return"
  \/ (TopLevelNothing(r) /\ NewItemsTier(r).k = "return")

\* raw_responses has no influence on the result
C10_RawIgnored ==
  (Ran /\ C10_TextBefore(result))
    => extracted = _extract_response([result EXCEPT !.raw_responses = Absent])

\* C10 as stated: the first non-empty text is returned as found
C10_RawFirstTextAsFound ==
  /\ C10_RawIgnored
  /\ (Ran /\ C10_NothingBefore(result) /\ IsList(result.raw_responses))
       => \A i \in 1..Len(result.raw_responses.v) :
            ( /\ C10_Found(result.raw_responses.v[i]) # Absent
              /\ \A j \in 1..(i - 1) : C10_Found(result.raw_responses.v[j]) = Absent )
            => extracted = Ret(C10_Found(result.raw_responses.v[i]))

\* C10 (amended): when the earlier tiers yield nothing, raw_responses is
\* walked in order and the first text that is not blank is returned, for each
\* entry choices[0].message.content (returned without its leading and
\* trailing whitespace) before the entry's own content (returned unchanged);
\* raw_responses has no influence when an earlier tier yields text
C10_RawFirstNonBlank ==
  /\ C10_RawIgnored
  /\ (Ran /\ C10_NothingBefore(result) /\ IsList(result.raw_responses))
       => /\ \A i \in 1..Len(result.raw_responses.v) :
               ( /\ C10_Yield(result.raw_responses.v[i]) # Absent
                 /\ \A j \in 1..(i - 1) : C10_Yield(result.raw_responses.v[j]) = Absent )
               => extracted = Ret(C10_Yield(result.raw_responses.v[i]))
          /\ (\A i \in 1..Len(result.raw_responses.v) :
                C10_Yield(result.raw_responses.v[i]) = Absent)
               => extracted = Sentinel

\* the second raw response yields: its padded choice content wins over its
\* direct content and is returned trimmed
C10_Witness ==
  /\ Ran /\ C10_NothingBefore(result)
  /\ IsList(result.raw_responses) /\ Len(result.raw_responses.v) = 2
  /\ C10_Yield(result.raw_responses.v[1]) = Absent
  /\ C10_Choice(result.raw_responses.v[2]) = Str(<<" ", "C", "1", " ">>)
  /\ NonBlank(Attr(result.raw_responses.v[2], "content"))
  /\ extracted = Ret(Str(<<"C", "1">>))

\* ------------------------------------------------------------------------
\* Properties of the tool registry
\* ------------------------------------------------------------------------
\* the credential is non-empty and not the placeholder, and the flag is on
ConfigAvailable(settings) ==
  /\ settings.exa.api_key \notin {None, EmptyKey, PlaceholderKey}
  /\ settings.exa.enabled

\* the status entry of a catalogued name
Entry(status, name) == DictGet(status, name, <<>>)

\* name is a web-search tool that no custom tool has taken the place of
WebCategory(status, name) ==
  /\ name \in WebNames
  /\ name \in Keys(status) =>
       GetAttr(Entry(status, name), "category", "none") = "web_search"

\* C11: in every registry state a tool of the web-search category is
\* reported available if and only if the current configuration has a
\* credential that is non-empty and not the placeholder and has exa.enabled
\* true.
C11_WebAvailabilityFollowsConfig ==
  _registry # None =>
    \A n \in WebNames :
      WebCategory(_registry.status, n) =>
        (is_tool_available(_registry.status, n) <=> ConfigAvailable(_settings))

\* C12: a get_tool_status() call that follows an earlier one, with a
\* change of the credential configuration and no refresh in between,
\* reports for every web-search entry the availability of the new
\* configuration.
C12_StatusRecomputed ==
  (lastOp.op = "get_tool_status" /\ lastOp.second) =>
    \A n \in Keys(lastOp.ret) :
      WebCategory(lastOp.ret, n) =>
        (Entry(lastOp.ret, n).available <=> ConfigAvailable(_settings))

\* get_tool_status() has an entry for the search tool with this value
SearchEntryIs(b) ==
  LET st == get_tool_status(_registry.status)
  IN  "web_search" \in Keys(st) /\ Entry(st, "web_search").available = b

\* C13: a registry built while the credential is the empty string or the
\* placeholder has a search-tool entry with available=false; once a valid
\* credential is supplied and refresh() has run, the entry has
\* available=true.
C13_BuiltWithoutCredentialThenRefreshed ==
  /\ (lastOp.op = "build"
        /\ lastOp.credential \in {EmptyKey, PlaceholderKey})
       => SearchEntryIs(FALSE)
  /\ (lastOp.op = "refresh" /\ lastOp.after = "build"
        /\ ConfigAvailable(_settings))
       => SearchEntryIs(TRUE)

\* the catalogued names whose status says available, in the order in which
\* they entered the catalogue
AvailableInArrivalOrder ==
  SelectSeq(arrival,
            LAMBDA n : /\ n \in Keys(_registry.tools)
                       /\ n \in Keys(_registry.status)
                       /\ Entry(_registry.status, n).available)

\* C14: get_available_tools returns exactly the catalogued tools whose
\* status has available=true, in the order in which their names entered
\* the catalogue, and a call that directly follows another returns the
\* same sequence.
C14_AvailableToolsInArrivalOrder ==
  lastOp.op = "get_available_tools" =>
    /\ lastOp.ret = [i \in 1..Len(AvailableInArrivalOrder) |->
                       DictGet(_registry.tools, AvailableInArrivalOrder[i],
                               None)]
    /\ lastOp.repeated => lastOp.ret = lastOp.previous

\* a repeated call returned a custom tool ahead of a web tool that entered
\* the catalogue again after it, with another catalogued tool left out
C14_Witness ==
  /\ lastOp.op = "get_available_tools"
  /\ lastOp.repeated
  /\ lastOp.ret = <<get_page_content, Calculator, web_search>>
  /\ Len(_registry.tools) = 4

\* C15: with unchanged configuration, a second run of discovery or of
\* refresh() leaves the tool names, their order and every status entry as
\* the first run left them.
C15_SecondRunChangesNothing ==
  [][ ( /\ lastOp'.op \in {"discover", "refresh"}
        /\ lastOp'.again
        /\ _settings' = _settings )
      => _registry' = _registry ]_vars

\* discovery has run a second time on a catalogue of web and custom tools
C15_Witness ==
  /\ lastOp.op = "discover"
  /\ lastOp.again
  /\ Len(_registry.tools) = 3
  /\ is_tool_available(_registry.status, "web_search")

\* what a tool says of its own availability; nothing said means available
SelfReport(tool) == GetAttr(tool, "is_available", TRUE)

\* C16: after register_tool(tool, name) the tool is retrievable under the
\* name and is reported available (is_tool_available, get_available_tools)
\* unless it reports itself unavailable, and then it is reported
\* unavailable.
C16_RegisteredToolReported ==
  lastOp.op = "register_tool" =>
    LET got == get_available_tools(_registry.tools, _registry.status)
    IN  /\ get_tool(_registry.tools, lastOp.name) = lastOp.tool
        /\ is_tool_available(_registry.status, lastOp.name)
             <=> SelfReport(lastOp.tool)
        /\ (\E i \in 1..Len(got) : got[i] = lastOp.tool)
             <=> SelfReport(lastOp.tool)

\* C17: unregister_tool(name) returns True exactly when name was in the
\* catalogue, and then the tool and its status entry are gone; otherwise
\* it returns False and leaves the catalogue and every status entry as
\* they were.
C17_Unregister ==
  [][ lastOp'.op = "unregister_tool" =>
        LET n == lastOp'.name
            was == n \in Keys(_registry.tools)
        IN  /\ lastOp'.ret = Ret(was)
            /\ was => /\ n \notin Keys(_registry'.tools)
                      /\ n \notin Keys(_registry'.status)
            /\ ~was => _registry' = _registry ]_vars

\* a catalogued tool was unregistered and others remain
C17_Witness ==
  /\ lastOp.op = "unregister_tool"
  /\ lastOp.ret = Ret(TRUE)
  /\ lastOp.name \notin Keys(_registry.tools)
  /\ lastOp.name \notin Keys(_registry.status)
  /\ Len(_registry.tools) = 2

\* C26: after any sequence of discovery, register_tool, unregister_tool
\* and refresh, the names of the catalogue are the names of the status map,
\* and every status entry carries its key as its name.
C26_CatalogueAndStatusAgree ==
  _registry # None =>
    /\ Keys(_registry.tools) = Keys(_registry.status)
    /\ \A i \in 1..Len(_registry.status) :
         _registry.status[i].v.name = _registry.status[i].k

\* a tool registered under another name than its own, next to the two
\* discovered ones and another custom tool
C26_Witness ==
  /\ lastOp.op = "register_tool"
  /\ lastOp.tool = Calculator
  /\ lastOp.name = "web_search"
  /\ Keys(_registry.tools) = {"web_search", "get_page_content", "offline"}
  /\ Entry(_registry.status, "web_search").name = "web_search"

\* C27: immediately after refresh() the catalogue and the status map hold
\* only the tools discovery finds; a custom tool registered before is
\* neither retrievable nor available.
C27_RefreshDiscardsCustomTools ==
  lastOp.op = "refresh" =>
    /\ \A i \in 1..Len(_registry.tools) :
         /\ _registry.tools[i].k \in WebNames
         /\ _registry.tools[i].v \in {web_search, get_page_content}
    /\ Keys(_registry.status) \subseteq WebNames
    /\ \A e \in lastOp.discarded :
         /\ get_tool(_registry.tools, e.k) # e.v
         /\ \A i \in 1..Len(get_available_tools(_registry.tools,
                                                _registry.status)) :
              get_available_tools(_registry.tools, _registry.status)[i] # e.v

\* a refresh that discarded a custom tool and found the two web tools
C27_Witness ==
  /\ lastOp.op = "refresh"
  /\ [k |-> "calculator", v |-> Calculator] \in lastOp.discarded
  /\ Keys(_registry.tools) = WebNames
  /\ get_tool(_registry.tools, "calculator") = None
  /\ ~is_tool_available(_registry.status, "calculator")

\* ------------------------------------------------------------------------
\* Properties of the process-wide objects
\* ------------------------------------------------------------------------
\* C21: every loaded Settings object has exa.enabled true only if
\* exa.api_key is present and non-empty, whether enabled was supplied or
\* left to its default and whether the credential is the nested or the
\* legacy one.
C21_EnabledOnlyWithKey ==
  _settings.exa.enabled => Truthy(_settings.exa.api_key)

\* C22: once loaded, the global Settings object changes only by an
\* explicit reload (reload_settings, configure_from_dict); no operation of
\* the registry or the CLI changes any of its fields.
C22_SettingsReadOnly ==
  [][_settings' # _settings => lastOp'.op = "configure"]_vars

\* the operations that go through get_tool_registry(settings)
ThroughRegistry ==
  {"get_tool_registry", "get_available_tools", "check_all_tools_status"}

\* C28: get_tool_registry returns the same ToolRegistry instance on every
\* call: once it exists, a call with whatever settings argument leaves the
\* instance, its contents and the availability it reports as they were.
C28_OneRegistryPerProcess ==
  [][(_registry # None /\ lastOp'.op \in ThroughRegistry) =>
       /\ _registry' = _registry
       /\ lastOp'.op = "get_tool_registry" => lastOp'.ret = _registry
       /\ lastOp'.op = "get_available_tools" =>
            lastOp'.ret = get_available_tools(_registry.tools,
                                              _registry.status)
       /\ lastOp'.op = "check_all_tools_status" =>
            lastOp'.ret = get_summary(_registry.tools, _registry.status)]_vars

\* a registry built without a credential is asked for its tools with
\* settings that carry a valid one, and still reports none
C28_Witness ==
  /\ lastOp.op = "get_available_tools"
  /\ ~lastOp.first
  /\ lastOp.settings # None
  /\ lastOp.settings # _registry.settings
  /\ ConfigAvailable(lastOp.settings)
  /\ ~ConfigAvailable(_registry.settings)
  /\ lastOp.ret = <<>>

\* ------------------------------------------------------------------------
\* Properties of the tool and client calls
\* ------------------------------------------------------------------------
\* the call has come to its end
Done == toolResult # NotYet /\ toolResult.stage = "done"

Refused == answer # NotYet /\ answer.k = "response" /\ answer.status # OkStatus

\* C19: when the provider answers a search or content request with a
\* non-200 status, the error the client raises carries the status code and
\* the response body, and so does the string the tool returns.
C19_StatusAndBodySurfaced ==
  (Done /\ Refused) =>
    IF call.fn \in ModelFacing
    THEN /\ toolResult.out.k = "return"
         /\ Contains(toolResult.out.v.v, Digits(answer.status))
         /\ Contains(toolResult.out.v.v, answer.text)
    ELSE /\ toolResult.out.k = "raise"
         /\ Contains(toolResult.out.e.msg, Digits(answer.status))
         /\ \/ toolResult.out.e.details = Str(answer.text)
            \/ Contains(toolResult.out.e.msg, answer.text)

\* C20: for every integer num_results passed to ExaSearchClient.search the
\* request carries numResults = num_results when 1 <= num_results <= 10 and
\* numResults = 5 otherwise, whatever max_results is configured.
C20_NumResultsNormalised ==
  (call # NotYet /\ call.fn = "search" /\ call.num_results # None
     /\ request # NotYet) =>
    /\ request.numResults \in 1..10
    /\ request.numResults =
         IF call.num_results.v >= 1 /\ call.num_results.v <= 10
         THEN call.num_results.v
         ELSE 5

\* the provider delivered a list of results
Delivered ==
  /\ answer # NotYet
  /\ answer.k = "response"
  /\ answer.status = OkStatus
  /\ answer.json # None
  /\ "error" \notin DOMAIN answer.json
  /\ "results" \in DOMAIN answer.json
  /\ answer.json.results # <<>>

\* the field a result's snippet is taken from: text, else the first two
\* highlights, else the summary
SnippetSource(r) ==
  IF "text" \in DOMAIN r /\ r.text # <<>> THEN r.text
  ELSE IF "highlights" \in DOMAIN r /\ r.highlights # <<>>
  THEN Join(FirstN(r.highlights, SnippetHighlights), <<" ">>)
  ELSE IF "summary" \in DOMAIN r /\ r.summary # <<>> THEN r.summary
  ELSE <<>>

\* a text cut to a limit, with the mark of the cut
Cut(text, limit, mark) ==
  IF Len(text) > limit THEN FirstN(text, limit) \o mark ELSE text

\* C25: get_page_content emits the page text unchanged up to 2000
\* characters and its first 2000 characters followed by an ellipsis beyond;
\* web_search emits for each result its snippet unchanged up to 300
\* characters and the first 300 characters plus an ellipsis beyond,
\* whichever of text, highlights and summary the snippet comes from.
C25_TextsCutToLimits ==
  (Done /\ Delivered /\ call.fn \in ModelFacing) =>
    /\ toolResult.out.k = "return"
    /\ IF call.fn = "web_search"
       THEN \A i \in 1..Len(answer.json.results) :
              LET src == SnippetSource(answer.json.results[i])
              IN  src # <<>> =>
                    /\ Contains(toolResult.out.v.v,
                                <<"   ">> \o Cut(src, SnippetLimit, <<"...">>))
                    /\ ~Contains(toolResult.out.v.v,
                                 <<"   ">> \o FirstN(src, SnippetLimit + 1))
                       \/ Len(src) <= SnippetLimit
       ELSE LET text == GetAttr(answer.json.results[1], "text", <<>>)
            IN  text # <<>> =>
                  /\ Contains(toolResult.out.v.v,
                              IF Len(text) > ContentLimit
                              THEN FirstN(text, ContentLimit) \o <<"...\n">>
                              ELSE <<"Content: ">> \o text \o <<"\n">>)
                  /\ ~Contains(toolResult.out.v.v,
                               FirstN(text, ContentLimit + 1))
                     \/ Len(text) <= ContentLimit

\* the invocation failed in one of the listed ways: refused before any
\* request (client unavailable, empty input), timeout, transport failure or
\* unexpected exception, non-200 response, a payload that is no dictionary
\* or carries an error
Failed ==
  \/ answer = NotYet
  \/ answer.k = "raise"
  \/ answer.status # OkStatus
  \/ answer.json = None
  \/ "error" \in DOMAIN answer.json

\* C29: the success flag computed for the tool-execution log is false for
\* every failure outcome of web_search and get_page_content and true for
\* every delivered list of results.
C29_SuccessFlagTellsFailure ==
  (Done /\ call.fn \in ModelFacing /\ "success" \in DOMAIN toolResult) =>
    /\ Failed => ~toolResult.success
    /\ Delivered => toolResult.success

\* ------------------------------------------------------------------------
\* Properties of the debug logger
\* ------------------------------------------------------------------------
\* C24: with debug logging enabled, after any sequence of log calls the
\* log directory holds one file per logged event, and every event's file
\* still holds that event.
C24_OneFilePerEvent ==
  (debugLogger # NotYet /\ debugLogger.enabled) =>
    /\ Len(files) = logged
    /\ \A n \in 1..logged : \E i \in 1..Len(files) : files[i].v.event = n

\* ------------------------------------------------------------------------
\* Properties of the streaming entry point
\* ------------------------------------------------------------------------
\* the stream completed without error
Completed == returned # NotYet /\ returned.ended

\* C23: for every event stream that completes without error,
\* process_streaming_response returns the stream result's final output,
\* with use_rich=True as with use_rich=False.
C23_StreamingReturnsFinalOutput ==
  (Completed /\ stream.final_output # Absent) =>
    returned.k = "return" /\ returned.v = stream.final_output

\* C30: after the stream ends, every invocation that received a result is
\* a tool call with status completed and that result, whatever the order
\* of the invocations and results, and a result that follows no invocation
\* leaves tool_calls empty.
C30_ResultsAttachedToTheirInvocation ==
  (Completed /\ ~stream.use_rich) =>
    /\ \A n \in stream.answered \ {0} :
         \E i \in 1..Len(handler.tool_calls) :
           /\ handler.tool_calls[i].arguments = [call |-> n]
           /\ handler.tool_calls[i].status = "completed"
           /\ handler.tool_calls[i].result = [of |-> n]
    /\ stream.invoked = 0 => handler.tool_calls = <<>>

====
